---- MODULE Spec2Model ----
(***************************************************************************)
(* The evaluator of the Scheme interpreter (src/src/evaluation.cpp) as a   *)
(* state machine.  A Value is a shared pointer to an object: here an index *)
(* into heap, 0 being the null pointer.  An Assoc is a shared pointer to   *)
(* an AssocList node: here an index into frames, 0 being the empty         *)
(* environment.  Every eval method is an operator of the same name that    *)
(* takes the expression, the environment and the machine (heap, frames,    *)
(* output) and returns the machine after the call with the value or the    *)
(* error thrown.  Names are sequences of characters.                       *)
(***************************************************************************)
EXTENDS Integers, Sequences, FiniteSets, TLC

VARIABLES
    heap,       \* the Value objects allocated so far
    frames,     \* the AssocList nodes allocated so far
    out,        \* what display has written to std::cout
    genv,       \* the driver's global environment (an Assoc)
    results,    \* one record per top-level form evaluated
    argOrder,   \* the build's order of evaluating the two arguments in Binary::eval
    modAbsent,  \* what the build's modify does with a name that is bound nowhere
    divOverflow,\* what the build's INT_MIN / -1 and INT_MIN % -1 do
    lq,         \* the local variables of IsList::evalRator while it runs
    program     \* the syntax trees the driver has still to read

vars == <<heap, frames, out, genv, results, argOrder, modAbsent, divOverflow, lq, program>>

----------------------------------------------------------------------------
(* Bounds of the model *)

\* top-level forms the driver evaluates in one run
MaxForms == 2
\* nested procedure applications before the host stack is exhausted
MaxDepth == 8
\* Pair objects in the graphs list? walks
MaxPairs == 4

----------------------------------------------------------------------------
(* Machine integers: int is 32 bits wide and wraps *)

INT_MAX == 2147483647
INT_MIN == (-2147483647) - 1

WrapAdd(x, y) ==
    IF x >= 0 /\ y >= 0
    THEN IF x > INT_MAX - y THEN (x + INT_MIN) + (y + INT_MIN) ELSE x + y
    ELSE IF x < 0 /\ y < 0
         THEN IF x < INT_MIN - y THEN (x - INT_MIN) + (y - INT_MIN) ELSE x + y
         ELSE x + y

WrapNeg(y) == IF y = INT_MIN THEN INT_MIN ELSE 0 - y

WrapSub(x, y) == WrapAdd(x, WrapNeg(y))

RECURSIVE MulLoop(_, _, _, _)
MulLoop(acc, x, y, k) ==
    IF k = 0 \/ y = 0 THEN acc
    ELSE MulLoop(IF y % 2 = 1 THEN WrapAdd(acc, x) ELSE acc,
                 WrapAdd(x, x), y \div 2, k - 1)

WrapMul(x, y) == MulLoop(0, x, y, 32)

Abs(x) == IF x < 0 THEN 0 - x ELSE x

\* C++ integer division truncates toward zero; the remainder has the dividend's sign
TruncDiv(a, b) ==
    IF (a >= 0) = (b > 0) THEN Abs(a) \div Abs(b) ELSE 0 - (Abs(a) \div Abs(b))

TruncMod(a, b) == a - b * TruncDiv(a, b)

----------------------------------------------------------------------------
(* Characters and names *)

Digits == {"0", "1", "2", "3", "4", "5", "6", "7", "8", "9"}

isdigit(c) == c \in Digits

\* the backquote character cannot be written in a string here: BACKQUOTE stands for it
BACKQUOTE == "backquote"

forbidden_chars == {"#", "'", "\"", BACKQUOTE}

----------------------------------------------------------------------------
(* The name tables *)

primitives ==
    <<"+">> :> "E_PLUS" @@ <<"-">> :> "E_MINUS" @@ <<"*">> :> "E_MUL" @@
    <<"/">> :> "E_DIV" @@
    <<"m","o","d","u","l","o">> :> "E_MODULO" @@
    <<"e","x","p","t">> :> "E_EXPT" @@
    <<"<">> :> "E_LT" @@ <<"<","=">> :> "E_LE" @@ <<"=">> :> "E_EQ" @@
    <<">","=">> :> "E_GE" @@ <<">">> :> "E_GT" @@
    <<"v","o","i","d">> :> "E_VOID" @@ <<"e","x","i","t">> :> "E_EXIT" @@
    <<"c","o","n","s">> :> "E_CONS" @@ <<"c","a","r">> :> "E_CAR" @@
    <<"c","d","r">> :> "E_CDR" @@ <<"l","i","s","t">> :> "E_LIST" @@
    <<"l","i","s","t","?">> :> "E_LISTQ" @@
    <<"s","e","t","-","c","a","r","!">> :> "E_SETCAR" @@
    <<"s","e","t","-","c","d","r","!">> :> "E_SETCDR" @@
    <<"n","o","t">> :> "E_NOT" @@ <<"a","n","d">> :> "E_AND" @@
    <<"o","r">> :> "E_OR" @@ <<"e","q","?">> :> "E_EQQ" @@
    <<"b","o","o","l","e","a","n","?">> :> "E_BOOLQ" @@
    <<"n","u","m","b","e","r","?">> :> "E_INTQ" @@
    <<"n","u","l","l","?">> :> "E_NULLQ" @@
    <<"p","a","i","r","?">> :> "E_PAIRQ" @@
    <<"p","r","o","c","e","d","u","r","e","?">> :> "E_PROCQ" @@
    <<"s","y","m","b","o","l","?">> :> "E_SYMBOLQ" @@
    <<"s","t","r","i","n","g","?">> :> "E_STRINGQ" @@
    <<"d","i","s","p","l","a","y">> :> "E_DISPLAY"

reserved_words ==
    <<"b","e","g","i","n">> :> "E_BEGIN" @@ <<"q","u","o","t","e">> :> "E_QUOTE" @@
    <<"i","f">> :> "E_IF" @@ <<"c","o","n","d">> :> "E_COND" @@
    <<"l","a","m","b","d","a">> :> "E_LAMBDA" @@
    <<"d","e","f","i","n","e">> :> "E_DEFINE" @@
    <<"l","e","t">> :> "E_LET" @@ <<"l","e","t","r","e","c">> :> "E_LETREC" @@
    <<"s","e","t","!">> :> "E_SET"

----------------------------------------------------------------------------
(* Values *)

IntegerV(n) == [v_type |-> "V_INT", n |-> n]
RationalV(num, den) == [v_type |-> "V_RATIONAL", numerator |-> num, denominator |-> den]
BooleanV(b) == [v_type |-> "V_BOOL", b |-> b]
StringV(s) == [v_type |-> "V_STRING", s |-> s]
SymbolV(s) == [v_type |-> "V_SYM", s |-> s]
PairV(car, cdr) == [v_type |-> "V_PAIR", car |-> car, cdr |-> cdr]
NullV == [v_type |-> "V_NULL"]
VoidV == [v_type |-> "V_VOID"]
TerminateV == [v_type |-> "V_TERMINATE"]
ProcedureV(parameters, e, env) ==
    [v_type |-> "V_PROC", parameters |-> parameters, e |-> e, env |-> env]

----------------------------------------------------------------------------
(* The machine an evaluation runs on, and what an evaluation returns *)

Machine(h, f, o, ao, ma, dv) ==
    [heap |-> h, frames |-> f, out |-> o, argOrder |-> ao, modAbsent |-> ma,
     divOverflow |-> dv]

\* return v
Ok(M, v) == [M |-> M, v |-> v, err |-> ""]

\* return a newly constructed object
Ret(M, obj) ==
    [M |-> [M EXCEPT !.heap = Append(@, obj)], v |-> Len(M.heap) + 1, err |-> ""]

\* throw RuntimeError: what the machine was changed to stays changed
Throw(M, e) == [M |-> M, v |-> 0, err |-> e]

----------------------------------------------------------------------------
(* Environments *)

RECURSIVE find(_, _, _)
find(x, M, env) ==
    IF env = 0 THEN 0
    ELSE IF M.frames[env].x = x THEN M.frames[env].v
    ELSE find(x, M, M.frames[env].next)

\* the nearest node that binds x, 0 when there is none
RECURSIVE findNode(_, _, _)
findNode(x, M, env) ==
    IF env = 0 THEN 0
    ELSE IF M.frames[env].x = x THEN env
    ELSE findNode(x, M, M.frames[env].next)

\* a new node in front of env; env itself is left as it was
extend(x, v, M, env) ==
    [M |-> [M EXCEPT !.frames = Append(@, [x |-> x, v |-> v, next |-> env])],
     env |-> Len(M.frames) + 1]

\* overwrite the slot of the nearest node binding x; with no such node the
\* behaviour is undefined: the build either leaves the chain alone or aborts
modify(x, v, M, env) ==
    LET nd == findNode(x, M, env) IN
    IF nd # 0 THEN Ok([M EXCEPT !.frames[nd].v = v], 0)
    ELSE IF M.modAbsent = "noop" THEN Ok(M, 0)
    ELSE Throw(M, "Abort")

----------------------------------------------------------------------------
(* Primitive operators: the numeric tower *)

IsInt(M, r) == M.heap[r].v_type = "V_INT"
IsRat(M, r) == M.heap[r].v_type = "V_RATIONAL"
IsNum(M, r) == IsInt(M, r) \/ IsRat(M, r)

\* the greatest common divisor of two magnitudes
RECURSIVE gcd(_, _)
gcd(x, y) == IF y = 0 THEN x ELSE gcd(y, x % y)

\* num/den in lowest terms
lowestTerms(num, den) ==
    LET g == gcd(IF num < 0 THEN 0 - num ELSE num, IF den < 0 THEN 0 - den ELSE den) IN
    IF g = 0 THEN RationalV(num, den) ELSE RationalV(num \div g, den \div g)

\* a + that reduces every Rational it makes to lowest terms
Plus_lowestTerms(M, rand1, rand2) ==
    LET a == M.heap[rand1]
        b == M.heap[rand2]
    IN
    IF a.v_type = "V_INT" /\ b.v_type = "V_INT"
    THEN Ret(M, IntegerV(WrapAdd(a.n, b.n)))
    ELSE IF a.v_type = "V_INT" /\ b.v_type = "V_RATIONAL"
    THEN Ret(M, lowestTerms(WrapAdd(WrapMul(a.n, b.denominator), b.numerator),
                            b.denominator))
    ELSE IF a.v_type = "V_RATIONAL" /\ b.v_type = "V_INT"
    THEN Ret(M, lowestTerms(WrapAdd(a.numerator, WrapMul(b.n, a.denominator)),
                            a.denominator))
    ELSE IF a.v_type = "V_RATIONAL" /\ b.v_type = "V_RATIONAL"
    THEN Ret(M, lowestTerms(WrapAdd(WrapMul(a.numerator, b.denominator),
                                    WrapMul(b.numerator, a.denominator)),
                            WrapMul(a.denominator, b.denominator)))
    ELSE Throw(M, "WrongType")

Plus(M, rand1, rand2) ==
    LET a == M.heap[rand1]
        b == M.heap[rand2]
    IN
    IF IsInt(M, rand1) /\ IsInt(M, rand2)
    THEN Ret(M, IntegerV(WrapAdd(a.n, b.n)))
    ELSE IF IsInt(M, rand1) /\ IsRat(M, rand2)
    THEN Ret(M, RationalV(WrapAdd(WrapMul(a.n, b.denominator), b.numerator),
                          b.denominator))
    ELSE IF IsRat(M, rand1) /\ IsInt(M, rand2)
    THEN Ret(M, RationalV(WrapAdd(a.numerator, WrapMul(b.n, a.denominator)),
                          a.denominator))
    ELSE IF IsRat(M, rand1) /\ IsRat(M, rand2)
    THEN Ret(M, RationalV(WrapAdd(WrapMul(a.numerator, b.denominator),
                                  WrapMul(b.numerator, a.denominator)),
                          WrapMul(a.denominator, b.denominator)))
    ELSE Throw(M, "WrongType")

Minus(M, rand1, rand2) ==
    LET a == M.heap[rand1]
        b == M.heap[rand2]
    IN
    IF IsInt(M, rand1) /\ IsInt(M, rand2)
    THEN Ret(M, IntegerV(WrapSub(a.n, b.n)))
    ELSE IF IsInt(M, rand1) /\ IsRat(M, rand2)
    THEN Ret(M, RationalV(WrapSub(WrapMul(a.n, b.denominator), b.numerator),
                          b.denominator))
    ELSE IF IsRat(M, rand1) /\ IsInt(M, rand2)
    THEN Ret(M, RationalV(WrapSub(a.numerator, WrapMul(b.n, a.denominator)),
                          a.denominator))
    ELSE IF IsRat(M, rand1) /\ IsRat(M, rand2)
    THEN Ret(M, RationalV(WrapSub(WrapMul(a.numerator, b.denominator),
                                  WrapMul(b.numerator, a.denominator)),
                          WrapMul(a.denominator, b.denominator)))
    ELSE Throw(M, "WrongType")

Mult(M, rand1, rand2) ==
    LET a == M.heap[rand1]
        b == M.heap[rand2]
    IN
    IF IsInt(M, rand1) /\ IsInt(M, rand2)
    THEN Ret(M, IntegerV(WrapMul(a.n, b.n)))
    ELSE IF IsInt(M, rand1) /\ IsRat(M, rand2)
    THEN Ret(M, RationalV(WrapMul(a.n, b.numerator), b.denominator))
    ELSE IF IsRat(M, rand1) /\ IsInt(M, rand2)
    THEN Ret(M, RationalV(WrapMul(a.numerator, b.n), a.denominator))
    ELSE IF IsRat(M, rand1) /\ IsRat(M, rand2)
    THEN Ret(M, RationalV(WrapMul(a.numerator, b.numerator),
                          WrapMul(a.denominator, b.denominator)))
    ELSE Throw(M, "WrongType")

\* INT_MIN / -1 and INT_MIN % -1 are undefined: the build traps, or it wraps
\* (the remainder is 0 and the quotient INT_MIN)
Div(M, rand1, rand2) ==
    LET a == M.heap[rand1]
        b == M.heap[rand2]
    IN
    IF IsInt(M, rand2) /\ b.n = 0 THEN Throw(M, "DivisionByZero")
    ELSE IF IsRat(M, rand2) /\ b.numerator = 0 THEN Throw(M, "DivisionByZero")
    ELSE IF IsInt(M, rand1) /\ IsInt(M, rand2)
    THEN IF a.n = INT_MIN /\ b.n = -1
         THEN IF M.divOverflow = "trap" THEN Throw(M, "Abort")
              ELSE Ret(M, IntegerV(INT_MIN))
         ELSE IF TruncMod(a.n, b.n) = 0
              THEN Ret(M, IntegerV(TruncDiv(a.n, b.n)))
              ELSE Ret(M, RationalV(a.n, b.n))
    ELSE IF IsInt(M, rand1) /\ IsRat(M, rand2)
    THEN Ret(M, RationalV(WrapMul(a.n, b.denominator), b.numerator))
    ELSE IF IsRat(M, rand1) /\ IsInt(M, rand2)
    THEN Ret(M, RationalV(a.numerator, WrapMul(a.denominator, b.n)))
    ELSE IF IsRat(M, rand1) /\ IsRat(M, rand2)
    THEN Ret(M, RationalV(WrapMul(a.numerator, b.denominator),
                          WrapMul(a.denominator, b.numerator)))
    ELSE Throw(M, "WrongType")

Modulo(M, rand1, rand2) ==
    LET a == M.heap[rand1]
        b == M.heap[rand2]
    IN
    IF IsInt(M, rand1) /\ IsInt(M, rand2)
    THEN IF b.n = 0 THEN Throw(M, "DivisionByZero")
         ELSE IF a.n = INT_MIN /\ b.n = -1
         THEN IF M.divOverflow = "trap" THEN Throw(M, "Abort")
              ELSE Ret(M, IntegerV(0))
         ELSE Ret(M, IntegerV(TruncMod(a.n, b.n)))
    ELSE Throw(M, "WrongType")

\* whether the product of two ints lies in [INT_MIN, INT_MAX]
MulFits(a, b) ==
    IF a = 0 \/ b = 0 THEN TRUE
    ELSE IF a = INT_MIN THEN b = 1
    ELSE IF b = INT_MIN THEN a = 1
    ELSE IF (a > 0) = (b > 0) THEN Abs(a) <= INT_MAX \div Abs(b)
    ELSE \/ Abs(a) <= INT_MAX \div Abs(b)
         \/ /\ Abs(a) = (INT_MAX \div Abs(b)) + 1
            /\ INT_MAX % Abs(b) = Abs(b) - 1

\* the squaring loop that gives up as soon as b * b leaves int, needed again or not
RECURSIVE ExptLoop_strict(_, _, _, _)
ExptLoop_strict(result, b, wide, exp) ==
    IF exp <= 0 THEN [over |-> FALSE, ub |-> FALSE, result |-> result]
    ELSE IF wide THEN [over |-> FALSE, ub |-> TRUE, result |-> 0]
    ELSE IF exp % 2 = 1 /\ ~MulFits(result, b) THEN [over |-> TRUE, ub |-> FALSE, result |-> 0]
    ELSE LET r2 == IF exp % 2 = 1 THEN result * b ELSE result IN
         IF ~MulFits(b, b)
         THEN [over |-> TRUE, ub |-> FALSE, result |-> 0]
         ELSE ExptLoop_strict(r2, b * b, FALSE, exp \div 2)

\* the squaring loop: result and b are long long. result is within int at the
\* head of every iteration; wide says that b is not (the value of b is then left
\* out, being one that only 64 bits hold). An iteration entered with a wide b
\* multiplies by it, and the product of an int and such a b, or its square, can
\* pass 64 bits: ub.
RECURSIVE ExptLoop(_, _, _, _)
ExptLoop(result, b, wide, exp) ==
    IF exp <= 0 THEN [over |-> FALSE, ub |-> FALSE, result |-> result]
    ELSE IF wide THEN [over |-> FALSE, ub |-> TRUE, result |-> 0]
    ELSE IF exp % 2 = 1 /\ ~MulFits(result, b) THEN [over |-> TRUE, ub |-> FALSE, result |-> 0]
    ELSE LET r2 == IF exp % 2 = 1 THEN result * b ELSE result IN
         IF ~MulFits(b, b)
         THEN IF exp > 1 THEN [over |-> TRUE, ub |-> FALSE, result |-> 0]
              ELSE ExptLoop(r2, b, TRUE, exp \div 2)
         ELSE ExptLoop(r2, b * b, FALSE, exp \div 2)

Expt(M, rand1, rand2) ==
    LET a == M.heap[rand1]
        b == M.heap[rand2]
    IN
    IF IsInt(M, rand1) /\ IsInt(M, rand2)
    THEN IF b.n < 0 THEN Throw(M, "NegativeExponent")
         ELSE IF a.n = 0 /\ b.n = 0 THEN Throw(M, "ZeroToZero")
         ELSE LET r == ExptLoop(1, a.n, FALSE, b.n) IN
              IF r.ub THEN Throw(M, "LongLongOverflow")
              ELSE IF r.over THEN Throw(M, "IntegerOverflow")
              ELSE Ret(M, IntegerV(r.result))
    ELSE Throw(M, "WrongType")

\* one binary arithmetic evalRator, by the tag of its class
Arith(op, M, rand1, rand2) ==
    CASE op = "Plus" -> Plus(M, rand1, rand2)
      [] op = "Minus" -> Minus(M, rand1, rand2)
      [] op = "Mult" -> Mult(M, rand1, rand2)
      [] op = "Div" -> Div(M, rand1, rand2)

\* for (i = 1; i < args.size(); ++i) result = Op.evalRator(result, args[i])
RECURSIVE accumulate(_, _, _, _, _)
accumulate(op, M, result, args, i) ==
    IF i > Len(args) THEN Ok(M, result)
    ELSE LET r == Arith(op, M, result, args[i]) IN
         IF r.err # "" THEN r ELSE accumulate(op, r.M, r.v, args, i + 1)

PlusVar(M, args) ==
    IF Len(args) = 0 THEN Ret(M, IntegerV(0))
    ELSE accumulate("Plus", M, args[1], args, 2)

MinusVar(M, args) ==
    IF Len(args) = 0 THEN Throw(M, "MalformedSyntax")
    ELSE IF Len(args) = 1
    THEN LET z == Ret(M, IntegerV(0)) IN Minus(z.M, z.v, args[1])
    ELSE accumulate("Minus", M, args[1], args, 2)

MultVar(M, args) ==
    IF Len(args) = 0 THEN Ret(M, IntegerV(1))
    ELSE accumulate("Mult", M, args[1], args, 2)

DivVar(M, args) ==
    IF Len(args) = 0 THEN Throw(M, "MalformedSyntax")
    ELSE IF Len(args) = 1
    THEN LET z == Ret(M, IntegerV(1)) IN Div(z.M, z.v, args[1])
    ELSE accumulate("Div", M, args[1], args, 2)

----------------------------------------------------------------------------
(* Primitive operators: comparisons *)

Sign(left, right) == IF left < right THEN -1 ELSE IF left > right THEN 1 ELSE 0

\* called with two numeric operands only
compareNumericValues(M, v1, v2) ==
    LET a == M.heap[v1]
        b == M.heap[v2]
    IN
    IF IsInt(M, v1) /\ IsInt(M, v2) THEN Sign(a.n, b.n)
    ELSE IF IsRat(M, v1) /\ IsInt(M, v2)
    THEN Sign(a.numerator, WrapMul(b.n, a.denominator))
    ELSE IF IsInt(M, v1) /\ IsRat(M, v2)
    THEN Sign(WrapMul(a.n, b.denominator), b.numerator)
    ELSE Sign(WrapMul(a.numerator, b.denominator),
              WrapMul(b.numerator, a.denominator))

Less(M, rand1, rand2) ==
    IF IsNum(M, rand1) /\ IsNum(M, rand2)
    THEN Ret(M, BooleanV(compareNumericValues(M, rand1, rand2) = -1))
    ELSE Throw(M, "WrongType")

LessEq(M, rand1, rand2) ==
    IF IsNum(M, rand1) /\ IsNum(M, rand2)
    THEN Ret(M, BooleanV(compareNumericValues(M, rand1, rand2) # 1))
    ELSE Throw(M, "WrongType")

Equal(M, rand1, rand2) ==
    IF IsNum(M, rand1) /\ IsNum(M, rand2)
    THEN Ret(M, BooleanV(compareNumericValues(M, rand1, rand2) = 0))
    ELSE Throw(M, "WrongType")

GreaterEq(M, rand1, rand2) ==
    IF IsNum(M, rand1) /\ IsNum(M, rand2)
    THEN Ret(M, BooleanV(compareNumericValues(M, rand1, rand2) # -1))
    ELSE Throw(M, "WrongType")

Greater(M, rand1, rand2) ==
    IF IsNum(M, rand1) /\ IsNum(M, rand2)
    THEN Ret(M, BooleanV(compareNumericValues(M, rand1, rand2) = 1))
    ELSE Throw(M, "WrongType")

Compare(op, M, rand1, rand2) ==
    CASE op = "Less" -> Less(M, rand1, rand2)
      [] op = "LessEq" -> LessEq(M, rand1, rand2)
      [] op = "Equal" -> Equal(M, rand1, rand2)
      [] op = "GreaterEq" -> GreaterEq(M, rand1, rand2)
      [] op = "Greater" -> Greater(M, rand1, rand2)

\* a loop that compares the first operand with each of the others
RECURSIVE allAdjacent_fromFirst(_, _, _, _)
allAdjacent_fromFirst(op, M, args, i) ==
    IF i > Len(args) - 1 THEN Ret(M, BooleanV(TRUE))
    ELSE LET r == Compare(op, M, args[1], args[i + 1]) IN
         IF r.err # "" THEN r
         ELSE IF ~r.M.heap[r.v].b THEN Ret(r.M, BooleanV(FALSE))
         ELSE allAdjacent_fromFirst(op, r.M, args, i + 1)

\* for (i = 0; i < args.size() - 1; ++i): false at the first pair that fails
RECURSIVE allAdjacent(_, _, _, _)
allAdjacent(op, M, args, i) ==
    IF i > Len(args) - 1 THEN Ret(M, BooleanV(TRUE))
    ELSE LET r == Compare(op, M, args[i], args[i + 1]) IN
         IF r.err # "" THEN r
         ELSE IF ~r.M.heap[r.v].b THEN Ret(r.M, BooleanV(FALSE))
         ELSE allAdjacent(op, r.M, args, i + 1)

CompareVar(op, M, args) ==
    IF Len(args) < 2 THEN Ret(M, BooleanV(TRUE))
    ELSE allAdjacent(op, M, args, 1)

----------------------------------------------------------------------------
(* Primitive operators: pairs, lists, identity, type predicates *)

Cons(M, rand1, rand2) == Ret(M, PairV(rand1, rand2))

\* now = NullV(); for (it = args.rbegin(); ...) now = PairV(*it, now)
RECURSIVE listFromBack(_, _, _, _)
listFromBack(M, args, i, now) ==
    IF i = 0 THEN Ok(M, now)
    ELSE LET r == Ret(M, PairV(args[i], now)) IN listFromBack(r.M, args, i - 1, r.v)

ListFunc(M, args) ==
    LET z == Ret(M, NullV) IN listFromBack(z.M, args, Len(args), z.v)

\* a walk whose fast pointer takes one step a turn, like the slow one
IsListIter_oneStep(M, slow, fast) ==
    IF M.heap[fast].v_type # "V_PAIR"
    THEN [done |-> TRUE, res |-> M.heap[fast].v_type = "V_NULL", slow |-> slow, fast |-> fast]
    ELSE IF slow = fast
    THEN [done |-> TRUE, res |-> FALSE, slow |-> slow, fast |-> fast]
    ELSE [done |-> FALSE, res |-> FALSE, slow |-> M.heap[slow].cdr, fast |-> M.heap[fast].cdr]

\* one turn of the while loop of list?: done with the answer, or the next slow and fast
IsListIter(M, slow, fast) ==
    IF M.heap[fast].v_type # "V_PAIR"
    THEN [done |-> TRUE, res |-> M.heap[fast].v_type = "V_NULL", slow |-> slow, fast |-> fast]
    ELSE IF slow = fast
    THEN [done |-> TRUE, res |-> FALSE, slow |-> slow, fast |-> fast]
    ELSE LET s2 == M.heap[slow].cdr
             f1 == M.heap[fast].cdr
         IN IF M.heap[f1].v_type # "V_PAIR"
            THEN [done |-> FALSE, res |-> FALSE, slow |-> s2, fast |-> f1]
            ELSE [done |-> FALSE, res |-> FALSE, slow |-> s2, fast |-> M.heap[f1].cdr]

RECURSIVE IsListLoop(_, _, _)
IsListLoop(M, slow, fast) ==
    LET it == IsListIter(M, slow, fast) IN
    IF it.done THEN it.res ELSE IsListLoop(M, it.slow, it.fast)

IsList(M, rand) ==
    IF M.heap[rand].v_type = "V_NULL" THEN Ret(M, BooleanV(TRUE))
    ELSE IF M.heap[rand].v_type # "V_PAIR" THEN Ret(M, BooleanV(FALSE))
    ELSE Ret(M, BooleanV(IsListLoop(M, rand, M.heap[rand].cdr)))

Car(M, rand) ==
    IF M.heap[rand].v_type = "V_PAIR" THEN Ok(M, M.heap[rand].car)
    ELSE Throw(M, "WrongType")

Cdr(M, rand) ==
    IF M.heap[rand].v_type = "V_PAIR" THEN Ok(M, M.heap[rand].cdr)
    ELSE Throw(M, "WrongType")

SetCar(M, rand1, rand2) ==
    IF M.heap[rand1].v_type # "V_PAIR" THEN Throw(M, "WrongType")
    ELSE Ret([M EXCEPT !.heap[rand1].car = rand2], VoidV)

SetCdr(M, rand1, rand2) ==
    IF M.heap[rand1].v_type # "V_PAIR" THEN Throw(M, "WrongType")
    ELSE Ret([M EXCEPT !.heap[rand1].cdr = rand2], VoidV)

\* an eq? that compares what the two objects hold
IsEq_structural(M, rand1, rand2) == Ret(M, BooleanV(M.heap[rand1] = M.heap[rand2]))

IsEq(M, rand1, rand2) ==
    LET a == M.heap[rand1]
        b == M.heap[rand2]
    IN
    IF a.v_type = "V_INT" /\ b.v_type = "V_INT" THEN Ret(M, BooleanV(a.n = b.n))
    ELSE IF a.v_type = "V_BOOL" /\ b.v_type = "V_BOOL" THEN Ret(M, BooleanV(a.b = b.b))
    ELSE IF a.v_type = "V_SYM" /\ b.v_type = "V_SYM" THEN Ret(M, BooleanV(a.s = b.s))
    ELSE IF \/ a.v_type = "V_NULL" /\ b.v_type = "V_NULL"
            \/ a.v_type = "V_VOID" /\ b.v_type = "V_VOID"
    THEN Ret(M, BooleanV(TRUE))
    ELSE Ret(M, BooleanV(rand1 = rand2))

IsBoolean(M, rand) == Ret(M, BooleanV(M.heap[rand].v_type = "V_BOOL"))
IsFixnum(M, rand) == Ret(M, BooleanV(M.heap[rand].v_type = "V_INT"))
IsNull(M, rand) == Ret(M, BooleanV(M.heap[rand].v_type = "V_NULL"))
IsPair(M, rand) == Ret(M, BooleanV(M.heap[rand].v_type = "V_PAIR"))
IsProcedure(M, rand) == Ret(M, BooleanV(M.heap[rand].v_type = "V_PROC"))
IsSymbol(M, rand) == Ret(M, BooleanV(M.heap[rand].v_type = "V_SYM"))
IsString(M, rand) == Ret(M, BooleanV(M.heap[rand].v_type = "V_STRING"))

Not(M, rand) ==
    IF M.heap[rand].v_type = "V_BOOL" THEN Ret(M, BooleanV(~M.heap[rand].b))
    ELSE Ret(M, BooleanV(FALSE))

\* out records the object written, whichever of the two printing branches wrote it
Display(M, rand) == Ret([M EXCEPT !.out = Append(@, M.heap[rand])], VoidV)

----------------------------------------------------------------------------
(* evalRator, dispatched on the class of the node *)

UnaryRator(op, M, rand) ==
    CASE op = "IsList" -> IsList(M, rand)
      [] op = "Car" -> Car(M, rand)
      [] op = "Cdr" -> Cdr(M, rand)
      [] op = "Not" -> Not(M, rand)
      [] op = "IsBoolean" -> IsBoolean(M, rand)
      [] op = "IsFixnum" -> IsFixnum(M, rand)
      [] op = "IsNull" -> IsNull(M, rand)
      [] op = "IsPair" -> IsPair(M, rand)
      [] op = "IsProcedure" -> IsProcedure(M, rand)
      [] op = "IsSymbol" -> IsSymbol(M, rand)
      [] op = "IsString" -> IsString(M, rand)
      [] op = "Display" -> Display(M, rand)

BinaryRator(op, M, rand1, rand2) ==
    CASE op = "Modulo" -> Modulo(M, rand1, rand2)
      [] op = "Expt" -> Expt(M, rand1, rand2)
      [] op = "Cons" -> Cons(M, rand1, rand2)
      [] op = "SetCar" -> SetCar(M, rand1, rand2)
      [] op = "SetCdr" -> SetCdr(M, rand1, rand2)
      [] op = "IsEq" -> IsEq(M, rand1, rand2)

VariadicRator(op, M, args) ==
    CASE op = "PlusVar" -> PlusVar(M, args)
      [] op = "MinusVar" -> MinusVar(M, args)
      [] op = "MultVar" -> MultVar(M, args)
      [] op = "DivVar" -> DivVar(M, args)
      [] op = "LessVar" -> CompareVar("Less", M, args)
      [] op = "LessEqVar" -> CompareVar("LessEq", M, args)
      [] op = "EqualVar" -> CompareVar("Equal", M, args)
      [] op = "GreaterEqVar" -> CompareVar("GreaterEq", M, args)
      [] op = "GreaterVar" -> CompareVar("Greater", M, args)
      [] op = "ListFunc" -> ListFunc(M, args)

UnaryOps == {"IsList", "Car", "Cdr", "Not", "IsBoolean", "IsFixnum", "IsNull", "IsPair",
             "IsProcedure", "IsSymbol", "IsString", "Display"}
BinaryOps == {"Modulo", "Expt", "Cons", "SetCar", "SetCdr", "IsEq"}
VariadicOps == {"PlusVar", "MinusVar", "MultVar", "DivVar", "LessVar", "LessEqVar",
                "EqualVar", "GreaterEqVar", "GreaterVar", "ListFunc"}

----------------------------------------------------------------------------
(* Expression nodes, as the analyzer constructs them *)

Fixnum(n) == [e_type |-> "Fixnum", n |-> n]
RationalNum(num, den) == [e_type |-> "RationalNum", numerator |-> num, denominator |-> den]
StringExpr(s) == [e_type |-> "StringExpr", s |-> s]
True == [e_type |-> "True"]
False == [e_type |-> "False"]
MakeVoid == [e_type |-> "MakeVoid"]
Exit == [e_type |-> "Exit"]
Var(x) == [e_type |-> "Var", x |-> x]
UnaryE(op, rand) == [e_type |-> op, rand |-> rand]
BinaryE(op, rand1, rand2) == [e_type |-> op, rand1 |-> rand1, rand2 |-> rand2]
VariadicE(op, rands) == [e_type |-> op, rands |-> rands]
AndVar(rands) == [e_type |-> "AndVar", rands |-> rands]
OrVar(rands) == [e_type |-> "OrVar", rands |-> rands]
Begin(es) == [e_type |-> "Begin", es |-> es]
If(cond, conseq, alter) ==
    [e_type |-> "If", cond |-> cond, conseq |-> conseq, alter |-> alter]
Cond(clauses) == [e_type |-> "Cond", clauses |-> clauses]
Lambda(x, e) == [e_type |-> "Lambda", x |-> x, e |-> e]
Apply(rator, rand) == [e_type |-> "Apply", rator |-> rator, rand |-> rand]
Define(var, e) == [e_type |-> "Define", var |-> var, e |-> e]
Let(bind, body) == [e_type |-> "Let", bind |-> bind, body |-> body]
Letrec(bind, body) == [e_type |-> "Letrec", bind |-> bind, body |-> body]
Set(var, e) == [e_type |-> "Set", var |-> var, e |-> e]
\* one (name, expression) pair of a let or letrec
Bind(first, second) == [first |-> first, second |-> second]
\* the null Expr
NullExpr == [e_type |-> "nullptr"]

----------------------------------------------------------------------------
(* Syntax nodes, as the reader hands them to the analyzer *)

Number(n) == [s_type |-> "Number", n |-> n]
RationalSyntax(num, den) ==
    [s_type |-> "RationalSyntax", numerator |-> num, denominator |-> den]
SymbolSyntax(s) == [s_type |-> "SymbolSyntax", s |-> s]
StringSyntax(s) == [s_type |-> "StringSyntax", s |-> s]
TrueSyntax == [s_type |-> "TrueSyntax"]
FalseSyntax == [s_type |-> "FalseSyntax"]
List(stxs) == [s_type |-> "List", stxs |-> stxs]

\* the node that keeps a syntax tree unevaluated
Quote(s) == [e_type |-> "Quote", s |-> s]

----------------------------------------------------------------------------
(* Variable reference *)

\* the scanning loop of isNumeric; i is the (1-based) position reached
RECURSIVE isNumericLoop(_, _, _, _, _)
isNumericLoop(s, i, has_digit, has_dot, has_exponent) ==
    IF i > Len(s) THEN has_digit
    ELSE IF isdigit(s[i]) THEN isNumericLoop(s, i + 1, TRUE, has_dot, has_exponent)
    ELSE IF s[i] = "."
    THEN IF has_dot \/ has_exponent THEN FALSE
         ELSE isNumericLoop(s, i + 1, has_digit, TRUE, has_exponent)
    ELSE IF s[i] = "e" \/ s[i] = "E"
    THEN IF has_exponent \/ ~has_digit THEN FALSE
         ELSE LET j == i + 1 IN
              IF j > Len(s) \/ (~isdigit(s[j]) /\ s[j] # "+" /\ s[j] # "-") THEN FALSE
              ELSE LET k == IF s[j] = "+" \/ s[j] = "-" THEN j + 1 ELSE j IN
                   IF k > Len(s) \/ ~isdigit(s[k]) THEN FALSE
                   ELSE isNumericLoop(s, k + 1, has_digit, has_dot, TRUE)
    ELSE FALSE

\* an isNumeric that does not step over a leading sign
isNumeric_unsigned(s) ==
    IF Len(s) = 0 THEN FALSE ELSE isNumericLoop(s, 1, FALSE, FALSE, FALSE)

isNumeric(s) ==
    IF Len(s) = 0 THEN FALSE
    ELSE isNumericLoop(s, IF s[1] = "+" \/ s[1] = "-" THEN 2 ELSE 1, FALSE, FALSE, FALSE)

parm == <<"p","a","r","m">>
parm1 == <<"p","a","r","m","1">>
parm2 == <<"p","a","r","m","2">>

\* the closure built for a primitive referenced as a bare variable
primitive_map ==
    "E_VOID" :> [e |-> MakeVoid, parameters |-> <<>>] @@
    "E_EXIT" :> [e |-> Exit, parameters |-> <<>>] @@
    "E_BOOLQ" :> [e |-> UnaryE("IsBoolean", Var(parm)), parameters |-> <<parm>>] @@
    "E_INTQ" :> [e |-> UnaryE("IsFixnum", Var(parm)), parameters |-> <<parm>>] @@
    "E_NULLQ" :> [e |-> UnaryE("IsNull", Var(parm)), parameters |-> <<parm>>] @@
    "E_PAIRQ" :> [e |-> UnaryE("IsPair", Var(parm)), parameters |-> <<parm>>] @@
    "E_PROCQ" :> [e |-> UnaryE("IsProcedure", Var(parm)), parameters |-> <<parm>>] @@
    "E_SYMBOLQ" :> [e |-> UnaryE("IsSymbol", Var(parm)), parameters |-> <<parm>>] @@
    "E_STRINGQ" :> [e |-> UnaryE("IsString", Var(parm)), parameters |-> <<parm>>] @@
    "E_DISPLAY" :> [e |-> UnaryE("Display", Var(parm)), parameters |-> <<parm>>] @@
    "E_PLUS" :> [e |-> VariadicE("PlusVar", <<>>), parameters |-> <<>>] @@
    "E_MINUS" :> [e |-> VariadicE("MinusVar", <<>>), parameters |-> <<>>] @@
    "E_MUL" :> [e |-> VariadicE("MultVar", <<>>), parameters |-> <<>>] @@
    "E_DIV" :> [e |-> VariadicE("DivVar", <<>>), parameters |-> <<>>] @@
    "E_MODULO" :> [e |-> BinaryE("Modulo", Var(parm1), Var(parm2)),
                   parameters |-> <<parm1, parm2>>] @@
    "E_EXPT" :> [e |-> BinaryE("Expt", Var(parm1), Var(parm2)),
                 parameters |-> <<parm1, parm2>>] @@
    "E_EQQ" :> [e |-> VariadicE("EqualVar", <<>>), parameters |-> <<>>]

VarEval(ex, e, M) ==
    LET x == ex.x IN
    IF Len(x) = 0 \/ isdigit(x[1]) \/ x[1] = "." \/ x[1] = "@"
    THEN Throw(M, "InvalidIdentifier")
    ELSE IF \E i \in 1..Len(x) : x[i] \in forbidden_chars
    THEN Throw(M, "InvalidIdentifier")
    ELSE IF isNumeric(x) THEN Throw(M, "InvalidIdentifier")
    ELSE LET matched_value == find(x, M, e) IN
         IF matched_value = 0
         THEN IF x \in DOMAIN primitives /\ primitives[x] \in DOMAIN primitive_map
              THEN LET it == primitive_map[primitives[x]] IN
                   Ret(M, ProcedureV(it.parameters, it.e, e))
              ELSE Throw(M, "UndefinedVariable")
         ELSE Ok(M, matched_value)

----------------------------------------------------------------------------
(* eval of every node with sub-expressions; d is the depth of procedure calls *)

RECURSIVE Eval(_, _, _, _)

\* evaluate es[i..] left to right and collect the values after acc
RECURSIVE evalArgs(_, _, _, _, _, _)
evalArgs(es, i, e, M, d, acc) ==
    IF i > Len(es) THEN [M |-> M, vs |-> acc, err |-> ""]
    ELSE LET r == Eval(es[i], e, M, d) IN
         IF r.err # "" THEN [M |-> r.M, vs |-> acc, err |-> r.err]
         ELSE evalArgs(es, i + 1, e, r.M, d, Append(acc, r.v))

\* evaluate es[i..] left to right and keep the last value
RECURSIVE evalEach(_, _, _, _, _, _)
evalEach(es, i, e, M, d, last_val) ==
    IF i > Len(es) THEN Ok(M, last_val)
    ELSE LET r == Eval(es[i], e, M, d) IN
         IF r.err # "" THEN r ELSE evalEach(es, i + 1, e, r.M, d, r.v)

\* env = extend(names[i], vals[i], env) for every i in turn
RECURSIVE extendAll(_, _, _, _, _)
extendAll(names, vals, i, M, env) ==
    IF i > Len(names) THEN [M |-> M, env |-> env]
    ELSE LET x == extend(names[i], vals[i], M, env) IN
         extendAll(names, vals, i + 1, x.M, x.env)

UnaryEval(ex, e, M, d) ==
    LET r == Eval(ex.rand, e, M, d) IN
    IF r.err # "" THEN r ELSE UnaryRator(ex.e_type, r.M, r.v)

\* the two operands are function arguments: the build fixes which is evaluated first
BinaryEval(ex, e, M, d) ==
    IF M.argOrder = "ltr"
    THEN LET r1 == Eval(ex.rand1, e, M, d) IN
         IF r1.err # "" THEN r1
         ELSE LET r2 == Eval(ex.rand2, e, r1.M, d) IN
              IF r2.err # "" THEN r2 ELSE BinaryRator(ex.e_type, r2.M, r1.v, r2.v)
    ELSE LET r2 == Eval(ex.rand2, e, M, d) IN
         IF r2.err # "" THEN r2
         ELSE LET r1 == Eval(ex.rand1, e, r2.M, d) IN
              IF r1.err # "" THEN r1 ELSE BinaryRator(ex.e_type, r1.M, r1.v, r2.v)

VariadicEval(ex, e, M, d) ==
    LET a == evalArgs(ex.rands, 1, e, M, d, <<>>) IN
    IF a.err # "" THEN Throw(a.M, a.err) ELSE VariadicRator(ex.e_type, a.M, a.vs)

BeginEval(ex, e, M, d) ==
    LET z == Ret(M, VoidV) IN evalEach(ex.es, 1, e, z.M, d, z.v)

IsFalse(M, v) == M.heap[v].v_type = "V_BOOL" /\ ~M.heap[v].b
IsTrue(M, v) == M.heap[v].v_type = "V_BOOL" /\ M.heap[v].b

\* the for loop of and: hit when an operand was boolean-false
RECURSIVE andLoop(_, _, _, _, _)
andLoop(rands, i, e, M, d) ==
    IF i > Len(rands) THEN [M |-> M, hit |-> FALSE, err |-> ""]
    ELSE LET r == Eval(rands[i], e, M, d) IN
         IF r.err # "" THEN [M |-> r.M, hit |-> FALSE, err |-> r.err]
         ELSE IF IsFalse(r.M, r.v) THEN [M |-> r.M, hit |-> TRUE, err |-> ""]
         ELSE andLoop(rands, i + 1, e, r.M, d)

AndVarEval(ex, e, M, d) ==
    IF Len(ex.rands) = 0 THEN Ret(M, BooleanV(TRUE))
    ELSE LET l == andLoop(ex.rands, 1, e, M, d) IN
         IF l.err # "" THEN Throw(l.M, l.err)
         ELSE IF l.hit THEN Ret(l.M, BooleanV(FALSE))
         ELSE Eval(ex.rands[Len(ex.rands)], e, l.M, d)

\* the for loop of or: hit when an operand was boolean-true
RECURSIVE orLoop(_, _, _, _, _)
orLoop(rands, i, e, M, d) ==
    IF i > Len(rands) THEN [M |-> M, hit |-> FALSE, err |-> ""]
    ELSE LET r == Eval(rands[i], e, M, d) IN
         IF r.err # "" THEN [M |-> r.M, hit |-> FALSE, err |-> r.err]
         ELSE IF IsTrue(r.M, r.v) THEN [M |-> r.M, hit |-> TRUE, err |-> ""]
         ELSE orLoop(rands, i + 1, e, r.M, d)

OrVarEval(ex, e, M, d) ==
    IF Len(ex.rands) = 0 THEN Ret(M, BooleanV(FALSE))
    ELSE LET l == orLoop(ex.rands, 1, e, M, d) IN
         IF l.err # "" THEN Throw(l.M, l.err)
         ELSE IF l.hit THEN Ret(l.M, BooleanV(TRUE))
         ELSE Ret(l.M, BooleanV(FALSE))

IfEval(ex, e, M, d) ==
    LET c == Eval(ex.cond, e, M, d) IN
    IF c.err # "" THEN c
    ELSE IF ~IsFalse(c.M, c.v) THEN Eval(ex.conseq, e, c.M, d)
    ELSE IF ex.alter.e_type # "nullptr" THEN Eval(ex.alter, e, c.M, d)
    ELSE Ret(c.M, BooleanV(FALSE))

\* a cond whose winning clause without a body yields last_val
RECURSIVE condLoop_lastVal(_, _, _, _, _)
condLoop_lastVal(clauses, i, env, M, d) ==
    IF i > Len(clauses) THEN Ret(M, BooleanV(FALSE))
    ELSE LET clause == clauses[i] IN
         IF Len(clause) = 0 THEN Throw(M, "MalformedSyntax")
         ELSE LET c == Eval(clause[1], env, M, d) IN
              IF c.err # "" THEN c
              ELSE IF ~IsFalse(c.M, c.v)
              THEN LET z == Ret(c.M, VoidV) IN evalEach(clause, 2, env, z.M, d, z.v)
              ELSE condLoop_lastVal(clauses, i + 1, env, c.M, d)

RECURSIVE condLoop(_, _, _, _, _)
condLoop(clauses, i, env, M, d) ==
    IF i > Len(clauses) THEN Ret(M, BooleanV(FALSE))
    ELSE LET clause == clauses[i] IN
         IF Len(clause) = 0 THEN Throw(M, "MalformedSyntax")
         ELSE LET c == Eval(clause[1], env, M, d) IN
              IF c.err # "" THEN c
              ELSE IF ~IsFalse(c.M, c.v)
              THEN LET z == Ret(c.M, VoidV)
                       b == evalEach(clause, 2, env, z.M, d, z.v)
                   IN IF b.err # "" THEN b
                      ELSE IF Len(clause) = 1 THEN Ok(b.M, c.v) ELSE b
              ELSE condLoop(clauses, i + 1, env, c.M, d)

CondEval(ex, env, M, d) == condLoop(ex.clauses, 1, env, M, d)

\* a copy of the chain env, node by node
RECURSIVE copyEnv(_, _)
copyEnv(M, env) ==
    IF env = 0 THEN [M |-> M, env |-> 0]
    ELSE LET rest == copyEnv(M, M.frames[env].next) IN
         extend(M.frames[env].x, M.frames[env].v, rest.M, rest.env)

\* a Lambda that captures a copy of the environment
LambdaEval_copy(ex, env, M, d) ==
    LET c == copyEnv(M, env) IN Ret(c.M, ProcedureV(ex.x, ex.e, c.env))

LambdaEval(ex, env, M, d) == Ret(M, ProcedureV(ex.x, ex.e, env))

\* an Apply that evaluates the arguments before it looks at the operator's value
ApplyEval_argsFirst(ex, e, M, d) ==
    LET proc_val == Eval(ex.rator, e, M, d) IN
    IF proc_val.err # "" THEN proc_val
    ELSE LET args == evalArgs(ex.rand, 1, e, proc_val.M, d, <<>>) IN
         IF args.err # "" THEN Throw(args.M, args.err)
         ELSE IF args.M.heap[proc_val.v].v_type # "V_PROC"
         THEN Throw(args.M, "NotAProcedure")
         ELSE LET clos == args.M.heap[proc_val.v] IN
              IF Len(args.vs) # Len(clos.parameters) THEN Throw(args.M, "ArityMismatch")
              ELSE LET param_env == extendAll(clos.parameters, args.vs, 1, args.M, clos.env) IN
                   IF d >= MaxDepth THEN Throw(param_env.M, "StackOverflow")
                   ELSE Eval(clos.e, param_env.env, param_env.M, d + 1)

ApplyEval(ex, e, M, d) ==
    LET proc_val == Eval(ex.rator, e, M, d) IN
    IF proc_val.err # "" THEN proc_val
    ELSE IF proc_val.M.heap[proc_val.v].v_type # "V_PROC"
    THEN Throw(proc_val.M, "NotAProcedure")
    ELSE LET clos == proc_val.M.heap[proc_val.v]
             args == evalArgs(ex.rand, 1, e, proc_val.M, d, <<>>)
         IN
         IF args.err # "" THEN Throw(args.M, args.err)
         ELSE IF Len(args.vs) # Len(clos.parameters) THEN Throw(args.M, "ArityMismatch")
         ELSE LET param_env == extendAll(clos.parameters, args.vs, 1, args.M, clos.env) IN
              IF d >= MaxDepth THEN Throw(param_env.M, "StackOverflow")
              ELSE Eval(clos.e, param_env.env, param_env.M, d + 1)

\* the environment extend returns is dropped: env itself is what the code goes on with
DefineEval(ex, env, M, d) ==
    IF ex.var \in DOMAIN primitives \/ ex.var \in DOMAIN reserved_words
    THEN Throw(M, "RedefinitionOfReserved")
    ELSE LET existing == find(ex.var, M, env)
             M1 == IF existing = 0
                   THEN LET z == Ret(M, VoidV) IN extend(ex.var, z.v, z.M, env).M
                   ELSE M
             val == Eval(ex.e, env, M1, d)
         IN
         IF val.err # "" THEN val
         ELSE LET m == modify(ex.var, val.v, val.M, env) IN
              IF m.err # "" THEN m ELSE Ret(m.M, VoidV)

\* a Let that evaluates each binding expression with the earlier bindings in scope
RECURSIVE letStarLoop(_, _, _, _, _)
letStarLoop(bind, i, let_env, M, d) ==
    IF i > Len(bind) THEN [M |-> M, env |-> let_env, err |-> ""]
    ELSE LET val == Eval(bind[i].second, let_env, M, d) IN
         IF val.err # "" THEN [M |-> val.M, env |-> let_env, err |-> val.err]
         ELSE LET x == extend(bind[i].first, val.v, val.M, let_env) IN
              letStarLoop(bind, i + 1, x.env, x.M, d)

LetEval_star(ex, env, M, d) ==
    LET l == letStarLoop(ex.bind, 1, env, M, d) IN
    IF l.err # "" THEN Throw(l.M, l.err) ELSE Eval(ex.body, l.env, l.M, d)

LetEval(ex, env, M, d) ==
    LET exprs == [i \in 1..Len(ex.bind) |-> ex.bind[i].second]
        names == [i \in 1..Len(ex.bind) |-> ex.bind[i].first]
        evaluated_bindings == evalArgs(exprs, 1, env, M, d, <<>>)
    IN
    IF evaluated_bindings.err # "" THEN Throw(evaluated_bindings.M, evaluated_bindings.err)
    ELSE LET let_env == extendAll(names, evaluated_bindings.vs, 1,
                                  evaluated_bindings.M, env)
         IN Eval(ex.body, let_env.env, let_env.M, d)

\* letrec_env = extend(var, VoidV(), letrec_env) for every binding
RECURSIVE letrecPlaceholders(_, _, _, _)
letrecPlaceholders(bind, i, M, letrec_env) ==
    IF i > Len(bind) THEN [M |-> M, env |-> letrec_env]
    ELSE LET z == Ret(M, VoidV)
             x == extend(bind[i].first, z.v, z.M, letrec_env)
         IN letrecPlaceholders(bind, i + 1, x.M, x.env)

\* val = expr->eval(letrec_env); modify(var, val, letrec_env) for every binding
RECURSIVE letrecFill(_, _, _, _, _)
letrecFill(bind, i, letrec_env, M, d) ==
    IF i > Len(bind) THEN Ok(M, 0)
    ELSE LET val == Eval(bind[i].second, letrec_env, M, d) IN
         IF val.err # "" THEN val
         ELSE LET m == modify(bind[i].first, val.v, val.M, letrec_env) IN
              IF m.err # "" THEN m ELSE letrecFill(bind, i + 1, letrec_env, m.M, d)

\* a Letrec that evaluates the binding expressions in the enclosing environment
RECURSIVE letrecFill_outer(_, _, _, _, _, _)
letrecFill_outer(bind, i, env, letrec_env, M, d) ==
    IF i > Len(bind) THEN Ok(M, 0)
    ELSE LET val == Eval(bind[i].second, env, M, d) IN
         IF val.err # "" THEN val
         ELSE LET m == modify(bind[i].first, val.v, val.M, letrec_env) IN
              IF m.err # "" THEN m
              ELSE letrecFill_outer(bind, i + 1, env, letrec_env, m.M, d)

LetrecEval_outer(ex, env, M, d) ==
    LET p == letrecPlaceholders(ex.bind, 1, M, env)
        f == letrecFill_outer(ex.bind, 1, env, p.env, p.M, d)
    IN
    IF f.err # "" THEN f ELSE Eval(ex.body, p.env, f.M, d)

LetrecEval(ex, env, M, d) ==
    LET p == letrecPlaceholders(ex.bind, 1, M, env)
        f == letrecFill(ex.bind, 1, p.env, p.M, d)
    IN
    IF f.err # "" THEN f ELSE Eval(ex.body, p.env, f.M, d)

\* a set! that evaluates its expression before it looks for the name
SetEval_evalFirst(ex, env, M, d) ==
    LET new_val == Eval(ex.e, env, M, d) IN
    IF new_val.err # "" THEN new_val
    ELSE IF find(ex.var, new_val.M, env) = 0 THEN Throw(new_val.M, "UndefinedVariable")
    ELSE LET m == modify(ex.var, new_val.v, new_val.M, env) IN
         IF m.err # "" THEN m ELSE Ret(m.M, VoidV)

SetEval(ex, env, M, d) ==
    LET existing == find(ex.var, M, env) IN
    IF existing = 0 THEN Throw(M, "UndefinedVariable")
    ELSE LET new_val == Eval(ex.e, env, M, d) IN
         IF new_val.err # "" THEN new_val
         ELSE LET m == modify(ex.var, new_val.v, new_val.M, env) IN
              IF m.err # "" THEN m ELSE Ret(m.M, VoidV)

\* sym->s == "."
isDot(stx) == stx.s_type = "SymbolSyntax" /\ stx.s = <<".">>

\* the first scan of a list: the (0-based) position of its dot, stxs.size() for
\* none, and whether a second dot was met
RECURSIVE dotScan(_, _, _)
dotScan(stxs, i, dot_pos) ==
    IF i >= Len(stxs) THEN [dot_pos |-> dot_pos, multiple |-> FALSE]
    ELSE IF isDot(stxs[i + 1])
    THEN IF dot_pos # Len(stxs) THEN [dot_pos |-> dot_pos, multiple |-> TRUE]
         ELSE dotScan(stxs, i + 1, i)
    ELSE dotScan(stxs, i + 1, dot_pos)

\* the second scan: how many dots the list holds
dot_count(stxs) == Cardinality({i \in 1..Len(stxs) : isDot(stxs[i])})

RECURSIVE syntaxToValue(_, _)

\* current = PairV(self(stxs[i]), current) for i down to the first element
RECURSIVE quoteChain(_, _, _, _)
quoteChain(stxs, i, M, current) ==
    IF i = 0 THEN Ok(M, current)
    ELSE LET car_val == syntaxToValue(stxs[i], M) IN
         IF car_val.err # "" THEN car_val
         ELSE LET pr == Ret(car_val.M, PairV(car_val.v, current)) IN
              quoteChain(stxs, i - 1, pr.M, pr.v)

\* a dotted list that takes the element right after the dot and ignores the rest
quoteList_anySuffix(stxs, M) ==
    LET scan == dotScan(stxs, 0, Len(stxs))
        dot_pos == scan.dot_pos
    IN
    IF scan.multiple THEN Throw(M, "IllegalQuoteStructure")
    ELSE IF dot_pos # Len(stxs)
    THEN IF dot_pos = 0 \/ dot_pos = Len(stxs) - 1 THEN Throw(M, "IllegalQuoteStructure")
         ELSE LET suffix_val == syntaxToValue(stxs[dot_pos + 2], M) IN
              IF suffix_val.err # "" THEN suffix_val
              ELSE quoteChain(stxs, dot_pos, suffix_val.M, suffix_val.v)
    ELSE LET list_val == Ret(M, NullV) IN
         IF Len(stxs) = 0 THEN list_val
         ELSE quoteChain(stxs, Len(stxs), list_val.M, list_val.v)

\* the List case of syntaxToValue
quoteList(stxs, M) ==
    LET scan == dotScan(stxs, 0, Len(stxs))
        dot_pos == scan.dot_pos
    IN
    IF scan.multiple THEN Throw(M, "IllegalQuoteStructure")
    ELSE IF /\ dot_count(stxs) > 1 \/ (dot_count(stxs) = 1 /\ Len(stxs) > 0)
            /\ isDot(stxs[Len(stxs)])
    THEN Throw(M, "IllegalQuoteStructure")
    ELSE IF dot_pos # Len(stxs)
    THEN IF dot_pos = 0 THEN Throw(M, "IllegalQuoteStructure")
         ELSE IF dot_pos = Len(stxs) - 1 THEN Throw(M, "IllegalQuoteStructure")
         ELSE IF Len(stxs) - dot_pos - 1 > 1 THEN Throw(M, "IllegalQuoteStructure")
         ELSE LET suffix_val == syntaxToValue(stxs[dot_pos + 2], M) IN
              IF suffix_val.err # "" THEN suffix_val
              ELSE quoteChain(stxs, dot_pos, suffix_val.M, suffix_val.v)
    ELSE IF Len(stxs) = 0 THEN Ret(M, NullV)
    ELSE LET list_val == Ret(M, NullV) IN
         quoteChain(stxs, Len(stxs), list_val.M, list_val.v)

syntaxToValue(sb, M) ==
    CASE sb.s_type = "SymbolSyntax" -> Ret(M, SymbolV(sb.s))
      [] sb.s_type = "Number" -> Ret(M, IntegerV(sb.n))
      [] sb.s_type = "RationalSyntax" -> Ret(M, RationalV(sb.numerator, sb.denominator))
      [] sb.s_type = "TrueSyntax" -> Ret(M, BooleanV(TRUE))
      [] sb.s_type = "FalseSyntax" -> Ret(M, BooleanV(FALSE))
      [] sb.s_type = "StringSyntax" -> Ret(M, StringV(sb.s))
      [] sb.s_type = "List" -> quoteList(sb.stxs, M)

QuoteEval(ex, e, M, d) == syntaxToValue(ex.s, M)

Eval(ex, e, M, d) ==
    CASE ex.e_type = "Fixnum" -> Ret(M, IntegerV(ex.n))
      [] ex.e_type = "RationalNum" -> Ret(M, RationalV(ex.numerator, ex.denominator))
      [] ex.e_type = "StringExpr" -> Ret(M, StringV(ex.s))
      [] ex.e_type = "True" -> Ret(M, BooleanV(TRUE))
      [] ex.e_type = "False" -> Ret(M, BooleanV(FALSE))
      [] ex.e_type = "MakeVoid" -> Ret(M, VoidV)
      [] ex.e_type = "Exit" -> Ret(M, TerminateV)
      [] ex.e_type = "Var" -> VarEval(ex, e, M)
      [] ex.e_type \in UnaryOps -> UnaryEval(ex, e, M, d)
      [] ex.e_type \in BinaryOps -> BinaryEval(ex, e, M, d)
      [] ex.e_type \in VariadicOps -> VariadicEval(ex, e, M, d)
      [] ex.e_type = "Begin" -> BeginEval(ex, e, M, d)
      [] ex.e_type = "AndVar" -> AndVarEval(ex, e, M, d)
      [] ex.e_type = "OrVar" -> OrVarEval(ex, e, M, d)
      [] ex.e_type = "If" -> IfEval(ex, e, M, d)
      [] ex.e_type = "Cond" -> CondEval(ex, e, M, d)
      [] ex.e_type = "Lambda" -> LambdaEval(ex, e, M, d)
      [] ex.e_type = "Apply" -> ApplyEval(ex, e, M, d)
      [] ex.e_type = "Define" -> DefineEval(ex, e, M, d)
      [] ex.e_type = "Let" -> LetEval(ex, e, M, d)
      [] ex.e_type = "Letrec" -> LetrecEval(ex, e, M, d)
      [] ex.e_type = "Set" -> SetEval(ex, e, M, d)
      [] ex.e_type = "Quote" -> QuoteEval(ex, e, M, d)

----------------------------------------------------------------------------
(* The analyzer: parse of every syntax node (src/src/parser.cpp) *)

\* return Expr(new ...)
Parsed(M, e) == [M |-> M, e |-> e, err |-> ""]
\* throw RuntimeError out of parse
ParseError(M, err) == [M |-> M, e |-> NullExpr, err |-> err]

RECURSIVE parse(_, _, _)

\* stxs[i].parse(env) for i up to the end, in turn, collected after acc
RECURSIVE parseEach(_, _, _, _, _)
parseEach(stxs, i, M, env, acc) ==
    IF i > Len(stxs) THEN [M |-> M, es |-> acc, err |-> ""]
    ELSE LET r == parse(stxs[i], M, env) IN
         IF r.err # "" THEN [M |-> r.M, es |-> acc, err |-> r.err]
         ELSE parseEach(stxs, i + 1, r.M, env, Append(acc, r.e))

\* (body_exprs.size() == 1) ? body_exprs[0] : Expr(new Begin(body_exprs))
bodyOf(body_exprs) == IF Len(body_exprs) = 1 THEN body_exprs[1] ELSE Begin(body_exprs)

\* whether every element of stxs is a symbol
allSymbols(stxs) == \A i \in 1..Len(stxs) : stxs[i].s_type = "SymbolSyntax"

\* Apply(stxs[0].parse(env), the other elements parsed)
parseApply(stxs, M, env) ==
    LET r == parseEach(stxs, 1, M, env, <<>>) IN
    IF r.err # "" THEN ParseError(r.M, r.err)
    ELSE Parsed(r.M, Apply(r.es[1], SubSeq(r.es, 2, Len(r.es))))

\* the nodes of the primitives that take any number of operands
variadicNode ==
    "E_PLUS" :> "PlusVar" @@ "E_MINUS" :> "MinusVar" @@ "E_MUL" :> "MultVar" @@
    "E_DIV" :> "DivVar" @@ "E_LIST" :> "ListFunc" @@ "E_LT" :> "LessVar" @@
    "E_LE" :> "LessEqVar" @@ "E_EQ" :> "EqualVar" @@ "E_GE" :> "GreaterEqVar" @@
    "E_GT" :> "GreaterVar" @@ "E_AND" :> "AndVar" @@ "E_OR" :> "OrVar"
\* the nodes of the primitives that take exactly one operand
unaryNode ==
    "E_NOT" :> "Not" @@ "E_CAR" :> "Car" @@ "E_CDR" :> "Cdr" @@
    "E_BOOLQ" :> "IsBoolean" @@ "E_INTQ" :> "IsFixnum" @@ "E_NULLQ" :> "IsNull" @@
    "E_PAIRQ" :> "IsPair" @@ "E_PROCQ" :> "IsProcedure" @@ "E_SYMBOLQ" :> "IsSymbol" @@
    "E_STRINGQ" :> "IsString" @@ "E_DISPLAY" :> "Display"
\* the nodes of the primitives that take exactly two operands
binaryNode ==
    "E_MODULO" :> "Modulo" @@ "E_EXPT" :> "Expt" @@ "E_CONS" :> "Cons" @@
    "E_EQQ" :> "IsEq" @@ "E_SETCAR" :> "SetCar" @@ "E_SETCDR" :> "SetCdr"

\* a variadic branch that asks every operator for at least one operand
parseVariadic_nonEmpty(op_type, parameters, M) ==
    IF Len(parameters) = 0 THEN ParseError(M, "MalformedSyntax")
    ELSE Parsed(M, VariadicE(variadicNode[op_type], parameters))

\* the branches of the variadic primitives
parseVariadic(op_type, parameters, M) ==
    IF op_type \in {"E_MINUS", "E_DIV"} /\ Len(parameters) = 0
    THEN ParseError(M, "MalformedSyntax")
    ELSE Parsed(M, VariadicE(variadicNode[op_type], parameters))

\* Case 1 of a list headed by a symbol: a primitive operation
parsePrimitive(op, stxs, M, env) ==
    LET r == parseEach(stxs, 2, M, env, <<>>)
        parameters == r.es
        op_type == primitives[op]
    IN
    IF r.err # "" THEN ParseError(r.M, r.err)
    ELSE IF op_type \in DOMAIN variadicNode THEN parseVariadic(op_type, parameters, r.M)
    ELSE IF op_type \in DOMAIN binaryNode
    THEN IF Len(parameters) # 2 THEN ParseError(r.M, "MalformedSyntax")
         ELSE Parsed(r.M, BinaryE(binaryNode[op_type], parameters[1], parameters[2]))
    ELSE IF op_type \in DOMAIN unaryNode
    THEN IF Len(parameters) = 1
         THEN Parsed(r.M, UnaryE(unaryNode[op_type], parameters[1]))
         ELSE ParseError(r.M, "MalformedSyntax")
    ELSE IF op_type = "E_VOID"
    THEN IF Len(parameters) = 0 THEN Parsed(r.M, MakeVoid)
         ELSE ParseError(r.M, "MalformedSyntax")
    ELSE IF op_type = "E_EXIT"
    THEN IF Len(parameters) = 0 THEN Parsed(r.M, Exit)
         ELSE ParseError(r.M, "MalformedSyntax")
    ELSE ParseError(r.M, "UnsupportedPrimitive")

\* lambda_env = extend(param, VoidV(), lambda_env) for every parameter in turn
RECURSIVE bindParams(_, _, _, _)
bindParams(params, i, M, lambda_env) ==
    IF i > Len(params) THEN [M |-> M, env |-> lambda_env]
    ELSE LET void == Ret(M, VoidV)
             x == extend(params[i], void.v, void.M, lambda_env)
         IN bindParams(params, i + 1, x.M, x.env)

parseQuote(stxs, M, env) ==
    IF Len(stxs) # 2 THEN ParseError(M, "MalformedSyntax")
    ELSE Parsed(M, Quote(stxs[2]))

\* an if that takes two operands or more and ignores those after the third
parseIf_noUpper(stxs, M, env) ==
    IF Len(stxs) < 3 THEN ParseError(M, "MalformedSyntax")
    ELSE LET r == parseEach(stxs, 2, M, env, <<>>) IN
         IF r.err # "" THEN ParseError(r.M, r.err)
         ELSE Parsed(r.M, If(r.es[1], r.es[2], IF Len(stxs) >= 4 THEN r.es[3] ELSE False))

parseIf(stxs, M, env) ==
    IF Len(stxs) < 3 \/ Len(stxs) > 4 THEN ParseError(M, "MalformedSyntax")
    ELSE LET r == parseEach(stxs, 2, M, env, <<>>) IN
         IF r.err # "" THEN ParseError(r.M, r.err)
         ELSE Parsed(r.M, If(r.es[1], r.es[2], IF Len(stxs) = 4 THEN r.es[3] ELSE False))

parseLambda(stxs, M, env) ==
    IF Len(stxs) < 3 THEN ParseError(M, "MalformedSyntax")
    ELSE IF stxs[2].s_type # "List" THEN ParseError(M, "MalformedSyntax")
    ELSE IF ~allSymbols(stxs[2].stxs) THEN ParseError(M, "MalformedSyntax")
    ELSE LET params == [i \in 1..Len(stxs[2].stxs) |-> stxs[2].stxs[i].s]
             lambda_env == bindParams(params, 1, M, env)
             body_exprs == parseEach(stxs, 3, lambda_env.M, lambda_env.env, <<>>)
         IN
         IF body_exprs.err # "" THEN ParseError(body_exprs.M, body_exprs.err)
         ELSE Parsed(body_exprs.M, Lambda(params, bodyOf(body_exprs.es)))

\* parseBody analyzes the body in env, the environment of the define form itself
parseDefine(stxs, M, env) ==
    IF Len(stxs) < 3 THEN ParseError(M, "MalformedSyntax")
    ELSE IF stxs[2].s_type = "SymbolSyntax"
    THEN LET body == parseEach(stxs, 3, M, env, <<>>) IN
         IF body.err # "" THEN ParseError(body.M, body.err)
         ELSE Parsed(body.M, Define(stxs[2].s, bodyOf(body.es)))
    ELSE IF stxs[2].s_type = "List"
    THEN LET func_shorthand == stxs[2].stxs IN
         IF Len(func_shorthand) = 0 THEN ParseError(M, "MalformedSyntax")
         ELSE IF ~allSymbols(func_shorthand) THEN ParseError(M, "MalformedSyntax")
         ELSE LET params == [i \in 1..(Len(func_shorthand) - 1) |-> func_shorthand[i + 1].s]
                  body == parseEach(stxs, 3, M, env, <<>>)
              IN
              IF body.err # "" THEN ParseError(body.M, body.err)
              ELSE Parsed(body.M, Define(func_shorthand[1].s, Lambda(params, bodyOf(body.es))))
    ELSE ParseError(M, "MalformedSyntax")

parseBegin(stxs, M, env) ==
    LET r == parseEach(stxs, 2, M, env, <<>>) IN
    IF r.err # "" THEN ParseError(r.M, r.err) ELSE Parsed(r.M, Begin(r.es))

\* the clauses from the i-th element on, each the parsed elements of one list
RECURSIVE parseClauses(_, _, _, _, _)
parseClauses(stxs, i, M, env, clauses) ==
    IF i > Len(stxs) THEN [M |-> M, es |-> clauses, err |-> ""]
    ELSE IF stxs[i].s_type # "List" THEN [M |-> M, es |-> clauses, err |-> "MalformedSyntax"]
    ELSE LET clause_exprs == parseEach(stxs[i].stxs, 1, M, env, <<>>) IN
         IF clause_exprs.err # "" THEN clause_exprs
         ELSE parseClauses(stxs, i + 1, clause_exprs.M, env, Append(clauses, clause_exprs.es))

parseCond(stxs, M, env) ==
    IF Len(stxs) = 1 THEN ParseError(M, "MalformedSyntax")
    ELSE LET r == parseClauses(stxs, 2, M, env, <<>>) IN
         IF r.err # "" THEN ParseError(r.M, r.err) ELSE Parsed(r.M, Cond(r.es))

\* parseBindings: every binding a (var expr) pair, expr parsed in env
RECURSIVE parseBindings(_, _, _, _, _)
parseBindings(bindings_list, i, M, env, bindings) ==
    IF i > Len(bindings_list) THEN [M |-> M, es |-> bindings, err |-> ""]
    ELSE LET var_expr_pair == bindings_list[i] IN
         IF var_expr_pair.s_type # "List" \/ Len(var_expr_pair.stxs) # 2
         THEN [M |-> M, es |-> bindings, err |-> "MalformedSyntax"]
         ELSE IF var_expr_pair.stxs[1].s_type # "SymbolSyntax"
         THEN [M |-> M, es |-> bindings, err |-> "MalformedSyntax"]
         ELSE LET expr == parse(var_expr_pair.stxs[2], M, env) IN
              IF expr.err # "" THEN [M |-> expr.M, es |-> bindings, err |-> expr.err]
              ELSE parseBindings(bindings_list, i + 1, expr.M, env,
                                 Append(bindings, Bind(var_expr_pair.stxs[1].s, expr.e)))

\* let and letrec: bindings and body are both parsed in env
parseLet(stxs, M, env, letrec) ==
    IF Len(stxs) < 3 THEN ParseError(M, "MalformedSyntax")
    ELSE IF stxs[2].s_type # "List" THEN ParseError(M, "MalformedSyntax")
    ELSE LET bindings == parseBindings(stxs[2].stxs, 1, M, env, <<>>) IN
         IF bindings.err # "" THEN ParseError(bindings.M, bindings.err)
         ELSE LET body_exprs == parseEach(stxs, 3, bindings.M, env, <<>>) IN
              IF body_exprs.err # "" THEN ParseError(body_exprs.M, body_exprs.err)
              ELSE Parsed(body_exprs.M,
                          IF letrec THEN Letrec(bindings.es, bodyOf(body_exprs.es))
                          ELSE Let(bindings.es, bodyOf(body_exprs.es)))

parseSet(stxs, M, env) ==
    IF Len(stxs) # 3 THEN ParseError(M, "MalformedSyntax")
    ELSE IF stxs[2].s_type # "SymbolSyntax" THEN ParseError(M, "MalformedSyntax")
    ELSE LET expr == parse(stxs[3], M, env) IN
         IF expr.err # "" THEN expr ELSE Parsed(expr.M, Set(stxs[2].s, expr.e))

\* Case 2 of a list headed by a symbol: a reserved word
parseReserved(op, stxs, M, env) ==
    CASE reserved_words[op] = "E_QUOTE" -> parseQuote(stxs, M, env)
      [] reserved_words[op] = "E_IF" -> parseIf(stxs, M, env)
      [] reserved_words[op] = "E_LAMBDA" -> parseLambda(stxs, M, env)
      [] reserved_words[op] = "E_DEFINE" -> parseDefine(stxs, M, env)
      [] reserved_words[op] = "E_BEGIN" -> parseBegin(stxs, M, env)
      [] reserved_words[op] = "E_COND" -> parseCond(stxs, M, env)
      [] reserved_words[op] = "E_LET" -> parseLet(stxs, M, env, FALSE)
      [] reserved_words[op] = "E_LETREC" -> parseLet(stxs, M, env, TRUE)
      [] reserved_words[op] = "E_SET" -> parseSet(stxs, M, env)

\* a List::parse that consults the two tables before it looks the head up in env
ListParse_tablesFirst(stxs, M, env) ==
    IF Len(stxs) = 0 THEN Parsed(M, Quote(List(<<>>)))
    ELSE IF stxs[1].s_type # "SymbolSyntax" THEN parseApply(stxs, M, env)
    ELSE LET op == stxs[1].s IN
         IF op \in DOMAIN primitives THEN parsePrimitive(op, stxs, M, env)
         ELSE IF op \in DOMAIN reserved_words THEN parseReserved(op, stxs, M, env)
         ELSE parseApply(stxs, M, env)

ListParse(stxs, M, env) ==
    IF Len(stxs) = 0 THEN Parsed(M, Quote(List(<<>>)))
    ELSE IF stxs[1].s_type # "SymbolSyntax" THEN parseApply(stxs, M, env)
    ELSE LET op == stxs[1].s IN
         IF find(op, M, env) # 0 THEN parseApply(stxs, M, env)
         ELSE IF op \in DOMAIN primitives THEN parsePrimitive(op, stxs, M, env)
         ELSE IF op \in DOMAIN reserved_words THEN parseReserved(op, stxs, M, env)
         ELSE parseApply(stxs, M, env)

parse(stx, M, env) ==
    CASE stx.s_type = "Number" -> Parsed(M, Fixnum(stx.n))
      [] stx.s_type = "RationalSyntax" ->
            Parsed(M, RationalNum(stx.numerator, stx.denominator))
      [] stx.s_type = "SymbolSyntax" -> Parsed(M, Var(stx.s))
      [] stx.s_type = "StringSyntax" -> Parsed(M, StringExpr(stx.s))
      [] stx.s_type = "TrueSyntax" -> Parsed(M, True)
      [] stx.s_type = "FalseSyntax" -> Parsed(M, False)
      [] stx.s_type = "List" -> ListParse(stx.stxs, M, env)

----------------------------------------------------------------------------
(* The driver: one top-level form after another, all in the global environment *)

TheMachine == Machine(heap, frames, out, argOrder, modAbsent, divOverflow)

LqIdle == [pc |-> "idle", rand |-> 0, slow |-> 0, fast |-> 0, res |-> FALSE]

\* nothing allocated, an empty global environment, and the build's choices made
InitBuild ==
    /\ heap = <<>>
    /\ frames = <<>>
    /\ out = <<>>
    /\ genv = 0
    /\ results = <<>>
    /\ argOrder \in {"ltr", "rtl"}
    /\ modAbsent \in {"noop", "abort"}
    /\ divOverflow \in {"trap", "wrap"}
    /\ lq = LqIdle

Init == InitBuild /\ program = <<>>

\* evaluate the analyzed form in the global environment and keep what came of it;
\* from and to delimit what the form wrote to out
EvalTop(form, limit) ==
    /\ Len(results) < limit
    /\ LET r == Eval(form, genv, TheMachine, 0) IN
       /\ heap' = r.M.heap
       /\ frames' = r.M.frames
       /\ out' = r.M.out
       /\ results' = Append(results, [form |-> form, v |-> r.v, err |-> r.err,
                                      from |-> Len(out), to |-> Len(r.M.out)])
    /\ UNCHANGED <<genv, argOrder, modAbsent, divOverflow, lq, program>>

\* analyze the syntax tree in the global environment and, when that succeeds,
\* evaluate the expression it gave; stage tells where an error was thrown
Run(stx) ==
    LET p == parse(stx, TheMachine, genv)
        r == IF p.err # "" THEN Throw(p.M, p.err) ELSE Eval(p.e, genv, p.M, 0)
    IN
    /\ heap' = r.M.heap
    /\ frames' = r.M.frames
    /\ out' = r.M.out
    /\ results' = Append(results,
                         [stx |-> stx, form |-> p.e,
                          stage |-> IF p.err # "" THEN "analyze" ELSE "eval",
                          v |-> r.v, err |-> r.err,
                          from |-> Len(out), to |-> Len(r.M.out)])

\* the driver is handed any syntax tree, up to limit of them
RunTop(stx, limit) ==
    /\ Len(results) < limit
    /\ Run(stx)
    /\ UNCHANGED <<genv, argOrder, modAbsent, divOverflow, lq, program>>

\* the driver reads the next syntax tree of the program
RunProgram ==
    /\ program # <<>>
    /\ Run(Head(program))
    /\ program' = Tail(program)
    /\ UNCHANGED <<genv, argOrder, modAbsent, divOverflow, lq>>

\* the result of the i-th form, as an object, and what it wrote
Obj(i) == heap[results[i].v]
Wrote(i) == SubSeq(out, results[i].from + 1, results[i].to)
Done(i) == i \in DOMAIN results /\ results[i].err = ""

----------------------------------------------------------------------------
(* Names used by the programs below *)

n_x == <<"x">>
n_y == <<"y">>
n_z == <<"z">>
n_f == <<"f">>
n_g == <<"g">>
n_n == <<"n">>
n_a == <<"a">>
n_b == <<"b">>
n_plus == <<"+">>

Plus2(a, b) == VariadicE("PlusVar", <<a, b>>)

----------------------------------------------------------------------------
(* Top-level definitions *)

\* top-level forms in one run of the definitions specification
MaxTopForms == 3

\* (define (f x) (set! x (+ x 1)) x)
DefineF == Define(n_f, Lambda(<<n_x>>, Begin(<<Set(n_x, Plus2(Var(n_x), Fixnum(1))), Var(n_x)>>)))
\* (f 10)
CallF10 == Apply(Var(n_f), <<Fixnum(10)>>)
\* (define x k)
DefineX(k) == Define(n_x, Fixnum(k))
\* (let ((x 1)) (define x k) x)
RedefineX(k) ==
    Let(<<Bind(n_x, Fixnum(1))>>, Begin(<<Define(n_x, Fixnum(k)), Var(n_x)>>))

TopForms ==
    {DefineF, CallF10, Var(n_x), Var(n_f), Define(n_plus, Fixnum(1))}
    \cup {DefineX(k) : k \in {5, 6}} \cup {RedefineX(k) : k \in {5, 6}}

NextTop == \E form \in TopForms : EvalTop(form, MaxTopForms)

SpecTop == Init /\ [][NextTop]_vars

\* what a literal or a lambda evaluates to in env
ValueOf(e, env) ==
    IF e.e_type = "Fixnum" THEN IntegerV(e.n) ELSE ProcedureV(e.x, e.e, env)

\* C1: after a successful top-level (define n e), n not a primitive or reserved
\* word, find(n, env) on the global environment returns the value of e, and a
\* later top-level reference to n sees it
C1_DefineBinds ==
    \A i \in DOMAIN results :
        LET form == results[i].form IN
        (/\ form.e_type = "Define"
         /\ form.var \notin DOMAIN primitives \cup DOMAIN reserved_words
         /\ results[i].err = "")
        => /\ i = Len(results) =>
                /\ find(form.var, TheMachine, genv) # 0
                /\ heap[find(form.var, TheMachine, genv)] = ValueOf(form.e, genv)
           /\ (i + 1 \in DOMAIN results /\ results[i + 1].form = Var(form.var)) =>
                /\ results[i + 1].err = ""
                /\ Obj(i + 1) = ValueOf(form.e, genv)

\* C2: after (define (f x) (set! x (+ x 1)) x), every call (f 10) evaluates to 11
C2_CallAfterDefine ==
    \A i, j \in DOMAIN results :
        (i < j /\ results[i].form = DefineF /\ results[i].err = ""
               /\ results[j].form = CallF10)
        => results[j].err = "" /\ Obj(j) = IntegerV(11)

----------------------------------------------------------------------------
(* let *)

Nums == {1, 2, 3}

Minus2(a, b) == VariadicE("MinusVar", <<a, b>>)
Mult2(a, b) == VariadicE("MultVar", <<a, b>>)
Equal2(a, b) == VariadicE("EqualVar", <<a, b>>)

\* (let ((x a)) (let ((x b) (y x)) y))
LetShadow(a, b) ==
    Let(<<Bind(n_x, Fixnum(a))>>,
        Let(<<Bind(n_x, Fixnum(b)), Bind(n_y, Var(n_x))>>, Var(n_y)))
\* (let ((x a)) (let ((y x) (x b)) y))
LetLater(a, b) ==
    Let(<<Bind(n_x, Fixnum(a))>>,
        Let(<<Bind(n_y, Var(n_x)), Bind(n_x, Fixnum(b))>>, Var(n_y)))
\* (let ((x a) (y x)) y)
LetUnbound(a) == Let(<<Bind(n_x, Fixnum(a)), Bind(n_y, Var(n_x))>>, Var(n_y))
\* (let ((x a) (y b)) (- x y))
LetBody(a, b) ==
    Let(<<Bind(n_x, Fixnum(a)), Bind(n_y, Fixnum(b))>>, Minus2(Var(n_x), Var(n_y)))

LetForms ==
    {LetShadow(a, b) : a, b \in Nums} \cup {LetLater(a, b) : a, b \in Nums}
    \cup {LetUnbound(a) : a \in Nums} \cup {LetBody(a, b) : a, b \in Nums}

NextLet == \E form \in LetForms : EvalTop(form, MaxForms)

SpecLet == Init /\ [][NextLet]_vars

\* C3: the binding expressions of a let are evaluated in the environment of the
\* let form, none sees a name bound by the same let, and the body sees them all
C3_LetOuterScope ==
    \A i \in DOMAIN results : \A a, b \in Nums :
        LET form == results[i].form IN
        /\ form = LetShadow(a, b) => Done(i) /\ Obj(i) = IntegerV(a)
        /\ form = LetLater(a, b) => Done(i) /\ Obj(i) = IntegerV(a)
        /\ form = LetUnbound(a) => results[i].err = "UndefinedVariable"
        /\ form = LetBody(a, b) => Done(i) /\ Obj(i) = IntegerV(a - b)

C3_Witness ==
    \E i \in DOMAIN results :
        results[i].form = LetShadow(1, 2) /\ Done(i) /\ Obj(i) = IntegerV(1)

----------------------------------------------------------------------------
(* letrec *)

\* (letrec ((f (lambda (n) (if (= n 0) 1 (* n (f (- n 1))))))) (f k))
Fact(k) ==
    Letrec(<<Bind(n_f, Lambda(<<n_n>>,
                 If(Equal2(Var(n_n), Fixnum(0)), Fixnum(1),
                    Mult2(Var(n_n), Apply(Var(n_f), <<Minus2(Var(n_n), Fixnum(1))>>)))))>>,
           Apply(Var(n_f), <<Fixnum(k)>>))
\* (letrec ((f (lambda (n) (if (= n 0) #t (g (- n 1)))))
\*          (g (lambda (n) (if (= n 0) #f (f (- n 1)))))) (f k))
EvenOdd(k) ==
    Letrec(<<Bind(n_f, Lambda(<<n_n>>,
                 If(Equal2(Var(n_n), Fixnum(0)), True,
                    Apply(Var(n_g), <<Minus2(Var(n_n), Fixnum(1))>>)))),
             Bind(n_g, Lambda(<<n_n>>,
                 If(Equal2(Var(n_n), Fixnum(0)), False,
                    Apply(Var(n_f), <<Minus2(Var(n_n), Fixnum(1))>>))))>>,
           Apply(Var(n_f), <<Fixnum(k)>>))
\* (letrec ((x a) (y x)) y)
LetrecInOrder(a) == Letrec(<<Bind(n_x, Fixnum(a)), Bind(n_y, Var(n_x))>>, Var(n_y))
\* (letrec ((y x) (x a)) y)
LetrecTooEarly(a) == Letrec(<<Bind(n_y, Var(n_x)), Bind(n_x, Fixnum(a))>>, Var(n_y))
\* (let ((z a)) (letrec ((g (lambda () z))) (g)))
LetrecExtends(a) ==
    Let(<<Bind(n_z, Fixnum(a))>>,
        Letrec(<<Bind(n_g, Lambda(<<>>, Var(n_z)))>>, Apply(Var(n_g), <<>>)))

FactArgs == 0..5
Factorial == [k \in FactArgs |-> CASE k = 0 -> 1 [] k = 1 -> 1 [] k = 2 -> 2
                                   [] k = 3 -> 6 [] k = 4 -> 24 [] k = 5 -> 120]

LetrecForms ==
    {Fact(k) : k \in FactArgs} \cup {EvenOdd(k) : k \in 0..3}
    \cup {LetrecInOrder(a) : a \in Nums} \cup {LetrecTooEarly(a) : a \in Nums}
    \cup {LetrecExtends(a) : a \in Nums}

NextLetrec == \E form \in LetrecForms : EvalTop(form, MaxForms)

SpecLetrec == Init /\ [][NextLetrec]_vars

\* C4: letrec binds all its names to Void in one environment extending the current
\* one, evaluates the binding expressions there in declaration order, overwriting
\* each placeholder; a lambda it binds can call itself and the other names:
\* (letrec ((f (lambda (n) (if (= n 0) 1 (* n (f (- n 1))))))) (f 5)) is 120
C4_Letrec ==
    \A i \in DOMAIN results :
        LET form == results[i].form IN
        /\ \A k \in FactArgs : form = Fact(k) => Done(i) /\ Obj(i) = IntegerV(Factorial[k])
        /\ \A k \in 0..3 : form = EvenOdd(k) => Done(i) /\ Obj(i) = BooleanV(k % 2 = 0)
        /\ \A a \in Nums :
              /\ form = LetrecInOrder(a) => Done(i) /\ Obj(i) = IntegerV(a)
              /\ form = LetrecTooEarly(a) => Done(i) /\ Obj(i) = VoidV
              /\ form = LetrecExtends(a) => Done(i) /\ Obj(i) = IntegerV(a)

C4_Witness ==
    \E i \in DOMAIN results :
        results[i].form = Fact(5) /\ Done(i) /\ Obj(i) = IntegerV(120)

----------------------------------------------------------------------------
(* Closures *)

n_inc == <<"i","n","c">>
n_get == <<"g","e","t">>

\* (inc) k times, then (get)
CallsThenGet(k) ==
    [j \in 1..(k + 1) |-> IF j <= k THEN Apply(Var(n_inc), <<>>) ELSE Apply(Var(n_get), <<>>)]

\* (let ((n a)) (let ((g (lambda () n))) (begin (set! n b) (g))))
SetAfterCapture(a, b) ==
    Let(<<Bind(n_n, Fixnum(a))>>,
        Let(<<Bind(n_g, Lambda(<<>>, Var(n_n)))>>,
            Begin(<<Set(n_n, Fixnum(b)), Apply(Var(n_g), <<>>)>>)))
\* (let ((n a))
\*   (let ((inc (lambda () (set! n (+ n 1)) n)) (get (lambda () n)))
\*     (begin (inc) ... (inc) (get))))          with k calls of inc
Counter(a, k) ==
    Let(<<Bind(n_n, Fixnum(a))>>,
        Let(<<Bind(n_inc, Lambda(<<>>, Begin(<<Set(n_n, Plus2(Var(n_n), Fixnum(1))),
                                                Var(n_n)>>))),
              Bind(n_get, Lambda(<<>>, Var(n_n)))>>,
            Begin(CallsThenGet(k))))
\* (let ((n a))
\*   (let ((inc (lambda () (set! n (+ n 1)) n)))
\*     (begin (inc) ... (inc))))                with k >= 1 calls of inc
SelfCounter(a, k) ==
    Let(<<Bind(n_n, Fixnum(a))>>,
        Let(<<Bind(n_inc, Lambda(<<>>, Begin(<<Set(n_n, Plus2(Var(n_n), Fixnum(1))),
                                                Var(n_n)>>)))>>,
            Begin([j \in 1..k |-> Apply(Var(n_inc), <<>>)])))

Calls == 0..2

ClosureForms ==
    {SetAfterCapture(ab[1], ab[2]) : ab \in {p \in Nums \X Nums : p[1] # p[2]}}
    \cup {Counter(a, k) : a \in Nums, k \in Calls}
    \cup {SelfCounter(a, k) : a \in Nums, k \in Calls \ {0}}

NextClosure == \E form \in ClosureForms : EvalTop(form, MaxForms)

SpecClosure == Init /\ [][NextClosure]_vars

\* C5: a Procedure shares the environment it was created in: a set! made after
\* the closure was created is seen by its next call, and a set! made inside a
\* call on a captured variable is in effect in every later call of that closure
\* and of any other closure created in the same environment
C5_SharedEnvironment ==
    \A i \in DOMAIN results : \A a \in Nums :
        LET form == results[i].form IN
        /\ \A b \in Nums \ {a} :
              form = SetAfterCapture(a, b) => Done(i) /\ Obj(i) = IntegerV(b)
        /\ \A k \in Calls : form = Counter(a, k) => Done(i) /\ Obj(i) = IntegerV(a + k)
        /\ \A k \in Calls \ {0} :
              form = SelfCounter(a, k) => Done(i) /\ Obj(i) = IntegerV(a + k)

C5_Witness ==
    \E i \in DOMAIN results :
        results[i].form = Counter(1, 2) /\ Done(i) /\ Obj(i) = IntegerV(3)

----------------------------------------------------------------------------
(* Application *)

n_p1 == <<"p","1">>
n_p2 == <<"p","2">>
n_p3 == <<"p","3">>
Params == <<n_p1, n_p2, n_p3>>

Shown(k) == UnaryE("Display", Fixnum(k))

\* the j-th argument: (begin (display j) (+ 10 j))
Arg(j) == Begin(<<Shown(j), Fixnum(10 + j)>>)

\* the operator: (begin (display 0) 5), or
\* (begin (display 0) (lambda (p1 .. pk) (display 9) (list p1 .. pk)))
Rator(k) ==
    IF k < 0 THEN Begin(<<Shown(0), Fixnum(5)>>)
    ELSE Begin(<<Shown(0),
                 Lambda(SubSeq(Params, 1, k),
                        Begin(<<Shown(9),
                                VariadicE("ListFunc", [j \in 1..k |-> Var(Params[j])])>>))>>)

\* (operator argument-1 .. argument-m); k = -1 makes the operator a non-procedure
Application(k, m) == Apply(Rator(k), [j \in 1..m |-> Arg(j)])

\* (let ((g (let ((z a)) (lambda () z)))) (let ((z b)) (g)))
Lexical(a, b) ==
    Let(<<Bind(n_g, Let(<<Bind(n_z, Fixnum(a))>>, Lambda(<<>>, Var(n_z))))>>,
        Let(<<Bind(n_z, Fixnum(b))>>, Apply(Var(n_g), <<>>)))

Arities == 0..3

ApplyForms ==
    {Application(k, m) : k \in {-1} \cup Arities, m \in Arities}
    \cup {Lexical(a, b) : a, b \in Nums}

NextApply == \E form \in ApplyForms : EvalTop(form, MaxForms)

SpecApply == Init /\ [][NextApply]_vars

\* the objects display wrote for the numbers lo..hi in turn
ShownInts(lo, hi) == [j \in 1..(hi - lo + 1) |-> IntegerV(lo + j - 1)]

\* whether v is the proper list of the integers 11 .. 10+m, from its j-th element on
RECURSIVE IsArgList(_, _, _)
IsArgList(v, j, m) ==
    IF j > m THEN heap[v] = NullV
    ELSE /\ heap[v].v_type = "V_PAIR"
         /\ heap[heap[v].car] = IntegerV(10 + j)
         /\ IsArgList(heap[v].cdr, j + 1, m)

\* C6: Apply evaluates the operator and fails with NotAProcedure before any
\* argument is evaluated; then evaluates the arguments left to right; then fails
\* with ArityMismatch without evaluating the body; otherwise evaluates the body
\* in the captured environment extended with one binding per parameter
C6_ApplyOrder ==
    \A i \in DOMAIN results :
        LET form == results[i].form IN
        /\ \A m \in Arities :
              /\ form = Application(-1, m) =>
                    results[i].err = "NotAProcedure" /\ Wrote(i) = ShownInts(0, 0)
              /\ \A k \in Arities :
                    form = Application(k, m) =>
                        IF k # m
                        THEN /\ results[i].err = "ArityMismatch"
                             /\ Wrote(i) = ShownInts(0, m)
                        ELSE /\ Done(i)
                             /\ Wrote(i) = ShownInts(0, m) \o <<IntegerV(9)>>
                             /\ IsArgList(results[i].v, 1, m)
        /\ \A a, b \in Nums : form = Lexical(a, b) => Done(i) /\ Obj(i) = IntegerV(a)

C6_Witness ==
    \E i, j \in DOMAIN results :
        /\ results[i].form = Application(-1, 2) /\ results[i].err = "NotAProcedure"
        /\ results[j].form = Application(2, 3) /\ results[j].err = "ArityMismatch"

----------------------------------------------------------------------------
(* list? on every graph of pairs *)

\* heap[1] is Null, heap[2] an Integer, the rest Pairs whose cdr is any object
PairAts == 3..(2 + MaxPairs)

InitIsList ==
    /\ \E cdrs \in [PairAts -> 1..(2 + MaxPairs)] :
          heap = [a \in 1..(2 + MaxPairs) |->
                     IF a = 1 THEN NullV
                     ELSE IF a = 2 THEN IntegerV(7)
                     ELSE PairV(2, cdrs[a])]
    /\ frames = <<>>
    /\ out = <<>>
    /\ genv = 0
    /\ results = <<>>
    /\ argOrder = "ltr"
    /\ modAbsent = "noop"
    /\ divOverflow = "trap"
    /\ lq = LqIdle
    /\ program = <<>>

\* list? is entered with rand: the two early returns, or the pointers set up
IsListCall(rand) ==
    /\ lq.pc = "idle"
    /\ lq' = IF heap[rand].v_type = "V_NULL"
             THEN [pc |-> "done", rand |-> rand, slow |-> 0, fast |-> 0, res |-> TRUE]
             ELSE IF heap[rand].v_type # "V_PAIR"
             THEN [pc |-> "done", rand |-> rand, slow |-> 0, fast |-> 0, res |-> FALSE]
             ELSE [pc |-> "loop", rand |-> rand, slow |-> rand, fast |-> heap[rand].cdr,
                   res |-> FALSE]
    /\ UNCHANGED <<heap, frames, out, genv, results, argOrder, modAbsent, divOverflow,
                   program>>

\* one turn of its while loop, or the return after it
IsListTurn ==
    /\ lq.pc = "loop"
    /\ LET it == IsListIter(TheMachine, lq.slow, lq.fast) IN
       lq' = IF it.done
             THEN [lq EXCEPT !.pc = "done", !.res = it.res]
             ELSE [lq EXCEPT !.slow = it.slow, !.fast = it.fast]
    /\ UNCHANGED <<heap, frames, out, genv, results, argOrder, modAbsent, divOverflow,
                   program>>

NextIsList == (\E rand \in DOMAIN heap : IsListCall(rand)) \/ IsListTurn

\* a call that was made runs on: nothing else can stop the loop
SpecIsList == InitIsList /\ [][NextIsList]_vars /\ WF_vars(NextIsList)

\* the object k cdr-steps after a, stopping at the first object that is no Pair
RECURSIVE CdrNth(_, _)
CdrNth(a, k) ==
    IF k = 0 \/ heap[a].v_type # "V_PAIR" THEN a ELSE CdrNth(heap[a].cdr, k - 1)

\* following cdr from a reaches Null
ReachesNull(a) == \E k \in 0..Len(heap) : heap[CdrNth(a, k)].v_type = "V_NULL"

----------------------------------------------------------------------------
(* and, or, and primitives referenced as variables *)

\* the operands tried: #f, 5, #t
Operands == {False, Fixnum(5), True}
OperandLists == {<<>>} \cup {<<p>> : p \in Operands} \cup {<<p, q>> : p, q \in Operands}

\* the j-th operand announces itself: (begin (display j) operand)
Announced(ps) == [j \in 1..Len(ps) |-> Begin(<<Shown(j), ps[j]>>)]

OrOf(ps) == OrVar(Announced(ps))
AndOf(ps) == AndVar(Announced(ps))

\* the position of the first operand that is (or is not) the literal #f, 0 for none
FirstNonFalse(ps) ==
    IF \E j \in 1..Len(ps) : ps[j] # False
    THEN CHOOSE j \in 1..Len(ps) : ps[j] # False /\ \A h \in 1..(j - 1) : ps[h] = False
    ELSE 0
FirstFalse(ps) ==
    IF \E j \in 1..Len(ps) : ps[j] = False
    THEN CHOOSE j \in 1..Len(ps) : ps[j] = False /\ \A h \in 1..(j - 1) : ps[h] # False
    ELSE 0

\* what a literal operand evaluates to
Literal(p) ==
    IF p.e_type = "Fixnum" THEN IntegerV(p.n) ELSE BooleanV(p.e_type = "True")

n_h == <<"h">>
n_modulo == <<"m","o","d","u","l","o">>
n_car == <<"c","a","r">>
n_booleanq == <<"b","o","o","l","e","a","n","?">>

\* ((lambda (f) (f a b)) p)
ViaVar2(p, a, b) ==
    Apply(Lambda(<<n_f>>, Apply(Var(n_f), <<Fixnum(a), Fixnum(b)>>)), <<Var(p)>>)
\* ((lambda (f) (f a)) p)
ViaVar1(p, a) == Apply(Lambda(<<n_f>>, Apply(Var(n_f), <<Fixnum(a)>>)), <<Var(p)>>)

OrForms == {OrOf(ps) : ps \in OperandLists}
AndForms == {AndOf(ps) : ps \in OperandLists}
PrimForms ==
    {Var(p) : p \in DOMAIN primitives} \cup {Var(n_h)}
    \cup {ViaVar2(n_plus, a, b) : a, b \in Nums}
    \cup {ViaVar2(n_modulo, a, b) : a, b \in Nums}
    \cup {ViaVar1(n_booleanq, a) : a \in Nums}

NextOr == \E form \in OrForms : EvalTop(form, MaxForms)
NextAnd == \E form \in AndForms : EvalTop(form, MaxForms)
NextPrim == \E form \in PrimForms : EvalTop(form, MaxForms)

Next == NextOr \/ NextAnd \/ NextPrim

Spec == Init /\ [][Next]_vars

\* C8: or with no operand is false; otherwise the operands are evaluated left to
\* right up to the first that is not boolean-false, the result is then boolean-true
\* and the rest is not evaluated; it is false only when every operand was false
C8_Or ==
    \A i \in DOMAIN results : \A ps \in OperandLists :
        results[i].form = OrOf(ps) =>
            LET j == FirstNonFalse(ps) IN
            /\ Done(i)
            /\ Obj(i) = BooleanV(j # 0)
            /\ Wrote(i) = ShownInts(1, IF j # 0 THEN j ELSE Len(ps))

\* C9: and with no operand is true; otherwise the operands are evaluated left to
\* right, each at most once; it is false at the first boolean-false operand, the
\* rest not being evaluated, and else it is the value of the final operand
C9_And ==
    \A i \in DOMAIN results : \A ps \in OperandLists :
        results[i].form = AndOf(ps) =>
            LET j == FirstFalse(ps) IN
            /\ Done(i)
            /\ Obj(i) = IF j # 0 \/ Len(ps) = 0 THEN BooleanV(j = 0)
                        ELSE Literal(ps[Len(ps)])
            /\ Wrote(i) = ShownInts(1, IF j # 0 THEN j ELSE Len(ps))

\* C10: an unbound primitive name evaluates, as a bare variable, to a Procedure
\* that applied to arguments gives what the primitive form gives on them, so
\* ((lambda (f) (f 1 2)) +) is 3; a name neither bound nor primitive is undefined
C10_PrimitiveAsVariable ==
    \A i \in DOMAIN results :
        LET form == results[i].form IN
        /\ \A p \in DOMAIN primitives :
              form = Var(p) => Done(i) /\ Obj(i).v_type = "V_PROC"
        /\ form = Var(n_h) => results[i].err = "UndefinedVariable"
        /\ \A a, b \in Nums :
              /\ form = ViaVar2(n_plus, a, b) => Done(i) /\ Obj(i) = IntegerV(a + b)
              /\ form = ViaVar2(n_modulo, a, b) => Done(i) /\ Obj(i) = IntegerV(a % b)
              /\ form = ViaVar1(n_booleanq, a) => Done(i) /\ Obj(i) = BooleanV(FALSE)

----------------------------------------------------------------------------
(* The analyzer's resolution of the head of a list *)

\* analyses in one run of the analyzer specification
MaxAnalyses == 1

n_lambda == <<"l","a","m","b","d","a">>
n_define == <<"d","e","f","i","n","e">>
n_let == <<"l","e","t">>
n_letrec == <<"l","e","t","r","e","c">>
n_if == <<"i","f">>
n_list == <<"l","i","s","t">>
n_quote == <<"q","u","o","t","e">>
n_minus == <<"-">>
n_cond == <<"c","o","n","d">>
n_set == <<"s","e","t","!">>
n_begin == <<"b","e","g","i","n">>
n_and == <<"a","n","d">>
n_eqq == <<"e","q","?">>

\* names of the two tables a program may bind: reserved words and primitives
TableNames ==
    {n_if, n_quote, n_lambda, n_define, n_let, n_cond, n_set, n_begin,
     n_list, n_plus, n_minus, n_car, n_and, n_eqq}

Sym(x) == SymbolSyntax(x)

\* (lambda (a b) (- b a))
SubFrom == List(<<Sym(n_lambda), List(<<Sym(n_a), Sym(n_b)>>),
                  List(<<Sym(n_minus), Sym(n_b), Sym(n_a)>>)>>)
\* ((lambda (p) (p 1 2)) (lambda (a b) (- b a)))
Shadowed(p) ==
    List(<<List(<<Sym(n_lambda), List(<<Sym(p)>>), List(<<Sym(p), Number(1), Number(2)>>)>>),
           SubFrom>>)
\* (lambda (p) (lambda (x) (p x y)))
ShadowedInside(p) ==
    List(<<Sym(n_lambda), List(<<Sym(p)>>),
           List(<<Sym(n_lambda), List(<<Sym(n_x)>>),
                  List(<<Sym(p), Sym(n_x), Sym(n_y)>>)>>)>>)

ShadowForms == {Shadowed(p) : p \in TableNames} \cup {ShadowedInside(p) : p \in TableNames}

\* C11: a list whose head symbol is bound in the analysis environment is analyzed
\* as an Apply node whatever the symbol is, a primitive or a reserved word
\* included: inside (lambda (p) ...) the list (p 1 2) is an application of p
C11_BoundHeadIsApplication ==
    \A i \in DOMAIN results : \A p \in TableNames :
        /\ results[i].stx = Shadowed(p) =>
              /\ results[i].stage = "eval"
              /\ results[i].form =
                    Apply(Lambda(<<p>>, Apply(Var(p), <<Fixnum(1), Fixnum(2)>>)),
                          <<Lambda(<<n_a, n_b>>,
                                   VariadicE("MinusVar", <<Var(n_b), Var(n_a)>>))>>)
        /\ results[i].stx = ShadowedInside(p) =>
              /\ results[i].stage = "eval"
              /\ results[i].form =
                    Lambda(<<p>>,
                           IF p = n_lambda
                           THEN Apply(Var(p), <<Apply(Var(n_x), <<>>),
                                                Apply(Var(p), <<Var(n_x), Var(n_y)>>)>>)
                           ELSE Lambda(<<n_x>>, Apply(Var(p), <<Var(n_x), Var(n_y)>>)))

C11_Witness ==
    \E i \in DOMAIN results :
        /\ results[i].stx = Shadowed(n_if)
        /\ results[i].form.rator.e.e_type = "Apply"
        /\ Done(i) /\ Obj(i) = IntegerV(1)

\* (define (f p) (p 1 2))
DefShort(p) ==
    List(<<Sym(n_define), List(<<Sym(n_f), Sym(p)>>), List(<<Sym(p), Number(1), Number(2)>>)>>)
\* (define f (lambda (p) (p 1 2)))
DefLong(p) ==
    List(<<Sym(n_define), Sym(n_f),
           List(<<Sym(n_lambda), List(<<Sym(p)>>), List(<<Sym(p), Number(1), Number(2)>>)>>)>>)

DefineForms == {DefShort(p) : p \in TableNames} \cup {DefLong(p) : p \in TableNames}

\* C12: in (define (f p) body) the parameter p is a bound name while the body is
\* analyzed: a body list headed by p, p a keyword or a primitive name, is an
\* application of p, exactly as in (define f (lambda (p) body))
C12_ShorthandBindsParameters ==
    \A i \in DOMAIN results : \A p \in TableNames :
        (results[i].stx = DefShort(p) \/ results[i].stx = DefLong(p)) =>
            /\ results[i].stage = "eval"
            /\ results[i].form =
                  Define(n_f, Lambda(<<p>>, Apply(Var(p), <<Fixnum(1), Fixnum(2)>>)))

\* (let ((p 5)) (p 1 2)) and (letrec ((p 5)) (p 1 2))
LetShadowed(p) ==
    List(<<Sym(n_let), List(<<List(<<Sym(p), Number(5)>>)>>),
           List(<<Sym(p), Number(1), Number(2)>>)>>)
LetrecShadowed(p) ==
    List(<<Sym(n_letrec), List(<<List(<<Sym(p), Number(5)>>)>>),
           List(<<Sym(p), Number(1), Number(2)>>)>>)

LetBodyForms == {LetShadowed(p) : p \in TableNames} \cup {LetrecShadowed(p) : p \in TableNames}

\* C13: in the body of a let or letrec that binds p, p a keyword or a primitive
\* name, a list headed by p is an application of the bound variable; so
\* (let ((list 5)) (list 1 2)) fails with NotAProcedure
C13_LetBodyShadows ==
    \A i \in DOMAIN results : \A p \in TableNames :
        /\ results[i].stx = LetShadowed(p) =>
              /\ results[i].form =
                    Let(<<Bind(p, Fixnum(5))>>, Apply(Var(p), <<Fixnum(1), Fixnum(2)>>))
              /\ p = n_list => results[i].err = "NotAProcedure"
        /\ results[i].stx = LetrecShadowed(p) =>
              /\ results[i].form =
                    Letrec(<<Bind(p, Fixnum(5))>>, Apply(Var(p), <<Fixnum(1), Fixnum(2)>>))
              /\ p = n_list => results[i].err = "NotAProcedure"

\* the names of + - * / < <= = >= > and or list
VariadicNames == {x \in DOMAIN primitives : primitives[x] \in DOMAIN variadicNode}
OperandCounts == 0..2
\* (op 1 .. k)
WithOperands(op, k) == List(<<Sym(op)>> \o [j \in 1..k |-> Number(j)])

VariadicForms == {WithOperands(op, k) : op \in VariadicNames, k \in OperandCounts}

\* C14: the analyzer accepts every variadic primitive with any number of
\* operands, zero included
C14_VariadicAnyCount ==
    \A i \in DOMAIN results : \A op \in VariadicNames : \A k \in OperandCounts :
        results[i].stx = WithOperands(op, k) => results[i].stage = "eval"

\* C14, amended: the analyzer accepts + * < <= = >= > and or list with any number
\* of operands, zero included, and builds the node over the operands in order;
\* it accepts - and / with one operand or more and rejects (-) and (/)
C14_VariadicAnyCountButMinusDiv ==
    \A i \in DOMAIN results : \A op \in VariadicNames : \A k \in OperandCounts :
        results[i].stx = WithOperands(op, k) =>
            IF primitives[op] \in {"E_MINUS", "E_DIV"} /\ k = 0
            THEN results[i].stage = "analyze" /\ results[i].err = "MalformedSyntax"
            ELSE /\ results[i].stage = "eval"
                 /\ results[i].form =
                       VariadicE(variadicNode[primitives[op]], [j \in 1..k |-> Fixnum(j)])

C14_Witness ==
    \E i \in DOMAIN results :
        results[i].stx = WithOperands(n_plus, 0) /\ Done(i) /\ Obj(i) = IntegerV(0)

\* 1x, .5 and a#
BadNames == {<<"1", "x">>, <<".", "5">>, <<"a", "#">>}
\* (if #t 1 b)
InDeadBranch(b) == List(<<Sym(n_if), TrueSyntax, Number(1), Sym(b)>>)
\* (lambda () b)
InLambdaBody(b) == List(<<Sym(n_lambda), List(<<>>), Sym(b)>>)

BadNameForms ==
    {Sym(b) : b \in BadNames} \cup {InDeadBranch(b) : b \in BadNames}
    \cup {InLambdaBody(b) : b \in BadNames}

\* C15: a reference to the name 1x, .5 or a name holding # makes the analysis
\* itself fail with InvalidIdentifier, wherever the reference sits in the tree,
\* a branch that is never evaluated included
C15_InvalidIdentifierAtAnalysis ==
    \A i \in DOMAIN results :
        results[i].stx \in BadNameForms =>
            results[i].stage = "analyze" /\ results[i].err = "InvalidIdentifier"

AnalyzeForms ==
    ShadowForms \cup DefineForms \cup LetBodyForms \cup VariadicForms \cup BadNameForms

NextAnalyze == \E stx \in AnalyzeForms : RunTop(stx, MaxAnalyses)

SpecAnalyze == Init /\ [][NextAnalyze]_vars

----------------------------------------------------------------------------
(* Quotation *)

Dot == Sym(<<".">>)

\* the lists quoted: every list of up to 3 elements over 1, a and the dot, every
\* list of 4 over 1 and the dot, and lists that hold a list
QuoteAtoms == {Number(1), Sym(n_a), Dot}
InnerLists == {List(<<>>), List(<<Number(1), Dot, Number(2)>>), List(<<Number(1), Dot>>)}
OuterElems == {Number(2), Dot} \cup InnerLists
SeqsOver(S, n) == UNION {[1..k -> S] : k \in 0..n}

QuotedLists ==
    {List(q) : q \in SeqsOver(QuoteAtoms, 3)}
    \cup {List(q) : q \in [1..4 -> {Number(1), Dot}]}
    \cup {List(q) : q \in SeqsOver(OuterElems, 2)}
    \cup {List(<<Number(2), Dot, t>>) : t \in InnerLists}
    \cup {List(<<t, Dot, Number(2)>>) : t \in InnerLists}
    \cup {List(<<Number(1), t, Dot, Number(2)>>) : t \in InnerLists}

\* (quote t)
QuoteOf(t) == List(<<Sym(n_quote), t>>)

QuoteForms == {QuoteOf(t) : t \in QuotedLists}

NextQuote == \E stx \in QuoteForms : RunTop(stx, MaxAnalyses)

SpecQuote == Init /\ [][NextQuote]_vars

\* no dot at all, or one dot only, neither first nor last, with one element after it
WellDotted(q) ==
    LET dots == {k \in 1..Len(q) : q[k] = Dot} IN
    \/ dots = {}
    \/ \E k \in dots : dots = {k} /\ k > 1 /\ k = Len(q) - 1

\* well dotted at every nesting depth
RECURSIVE WellFormed(_)
WellFormed(t) ==
    t.s_type = "List" =>
        WellDotted(t.stxs) /\ \A k \in 1..Len(t.stxs) : WellFormed(t.stxs[k])

\* the datum a well-formed syntax tree denotes, pairs nested in place
RECURSIVE Datum(_)
RECURSIVE DatumFrom(_, _)
DatumFrom(q, k) ==
    IF k > Len(q) THEN NullV
    ELSE IF q[k] = Dot THEN Datum(q[k + 1])
    ELSE PairV(Datum(q[k]), DatumFrom(q, k + 1))
Datum(t) ==
    CASE t.s_type = "List" -> DatumFrom(t.stxs, 1)
      [] t.s_type = "Number" -> IntegerV(t.n)
      [] t.s_type = "SymbolSyntax" -> SymbolV(t.s)

\* the object at v with every Pair's car and cdr followed
RECURSIVE Deep(_)
Deep(v) ==
    IF heap[v].v_type = "V_PAIR" THEN PairV(Deep(heap[v].car), Deep(heap[v].cdr))
    ELSE heap[v]

\* C16: quote turns a list with no dot into the chain of Pairs of its elements
\* ending in Null (the empty list into Null), a list with one dot that is neither
\* first nor last and has one element after it into the chain of the elements
\* before the dot ending in the element after it, and fails with a quoting error
\* on every other placement of the dot, at any nesting depth
C16_QuoteLists ==
    \A i \in DOMAIN results : \A t \in QuotedLists :
        results[i].stx = QuoteOf(t) =>
            IF WellFormed(t)
            THEN Done(i) /\ Deep(results[i].v) = Datum(t)
            ELSE results[i].err = "IllegalQuoteStructure"

C16_Witness ==
    \E i \in DOMAIN results :
        /\ results[i].stx = QuoteOf(List(<<Number(1), Number(1), Dot, Number(1)>>))
        /\ Done(i)
        /\ Deep(results[i].v) = PairV(IntegerV(1), PairV(IntegerV(1), IntegerV(1)))

----------------------------------------------------------------------------
(* Arithmetic on the numeric tower *)

n_times == <<"*">>
n_div == <<"/">>
ArithNames == {n_plus, n_minus, n_times, n_div}

\* operands whose products stay far from the ends of int, and two that do not
SmallInts == -6..6
SmallOperands ==
    {Number(n) : n \in {-6, -1, 0, 1, 2, 3, 4, 6}}
    \cup {RationalSyntax(n, d) : n \in {-3, 0, 2, 4}, d \in {-2, 1, 2, 4}}
WideOperands ==
    {Number(65536)} \cup {RationalSyntax(n, d) : n \in {1, 65536}, d \in {65536}}
Operands2 == SmallOperands \cup WideOperands

\* (op x y), (/ x) and (/ a b c)
Binary(op, x, y) == List(<<Sym(op), x, y>>)
Reciprocal(x) == List(<<Sym(n_div), x>>)
DivChain(a, b, c) == List(<<Sym(n_div), Number(a), Number(b), Number(c)>>)
ChainInts == {-6, -1, 0, 2, 3}
\* (/ (- -2147483647 1) -1)
DivMin ==
    List(<<Sym(n_div), List(<<Sym(n_minus), Number(-2147483647), Number(1)>>), Number(-1)>>)

ArithForms ==
    {Binary(op, x, y) : op \in ArithNames, x \in Operands2, y \in Operands2}
    \cup {Reciprocal(x) : x \in SmallOperands}
    \cup {DivChain(abc[1], abc[2], abc[3]) : abc \in ChainInts \X ChainInts \X ChainInts}
    \cup {DivMin}

InitArith == InitBuild /\ program \in {<<stx>> : stx \in ArithForms}

SpecArith == InitArith /\ [][RunProgram]_vars

\* C17: every Rational that + - * / make of Integer and Rational operands with
\* nonzero denominators has a nonzero denominator, whatever the operand values
C17_DenominatorNonzero ==
    \A i \in DOMAIN results : \A op \in ArithNames : \A x, y \in Operands2 :
        (results[i].stx = Binary(op, x, y) /\ Done(i) /\ Obj(i).v_type = "V_RATIONAL")
        => Obj(i).denominator # 0

\* an operand as numerator and denominator, an Integer n being n/1
NumOf(x) == IF x.s_type = "Number" THEN x.n ELSE x.numerator
DenOf(x) == IF x.s_type = "Number" THEN 1 ELSE x.denominator
IsZero(x) == NumOf(x) = 0

\* the cross-multiplied terms of a/b op c/d
Cross(op, a, b, c, d) ==
    CASE op = n_plus -> RationalV(a * d + c * b, b * d)
      [] op = n_minus -> RationalV(a * d - c * b, b * d)
      [] op = n_times -> RationalV(a * c, b * d)
      [] op = n_div -> RationalV(a * d, b * c)

\* C19: + - * of two Integers is the Integer sum, difference, product; + - * /
\* with a Rational operand is the Rational whose numerator and denominator are
\* exactly the cross-multiplied terms, an Integer n standing for n/1, unreduced
C19_CrossMultiplication ==
    \A i \in DOMAIN results : \A op \in ArithNames : \A x, y \in SmallOperands :
        (results[i].stx = Binary(op, x, y) /\ ~(op = n_div /\ IsZero(y))) =>
            IF x.s_type = "Number" /\ y.s_type = "Number"
            THEN op # n_div =>
                    /\ Done(i)
                    /\ Obj(i) = IntegerV(CASE op = n_plus -> x.n + y.n
                                           [] op = n_minus -> x.n - y.n
                                           [] op = n_times -> x.n * y.n)
            ELSE /\ Done(i)
                 /\ Obj(i) = Cross(op, NumOf(x), DenOf(x), NumOf(y), DenOf(y))

\* 2/4 + 2/4 is 16/16, not 1/1
C19_Witness ==
    \E i \in DOMAIN results :
        /\ results[i].stx = Binary(n_plus, RationalSyntax(2, 4), RationalSyntax(2, 4))
        /\ Done(i) /\ Obj(i) = RationalV(16, 16)

\* b divides a evenly, and the quotient then
Divides(b, a) == \E q \in SmallInts : q * b = a
Quotient(a, b) == CHOOSE q \in SmallInts : q * b = a
\* the Integer a divided by the nonzero Integer b
IntByInt(a, b) == IF Divides(b, a) THEN IntegerV(Quotient(a, b)) ELSE RationalV(a, b)
\* the value u, an Integer or a Rational, divided by the nonzero Integer c
ValueByInt(u, c) ==
    IF u.v_type = "V_INT" THEN IntByInt(u.n, c) ELSE RationalV(u.numerator, u.denominator * c)

\* C20: Integer a by Integer b is the Integer a/b when b divides a evenly and the
\* Rational a/b otherwise; any number by Integer 0 or by a Rational of numerator 0
\* fails with DivisionByZero and yields no value; (/ a) is 1 divided by a and
\* (/ a b c) divides left to right
C20_Division ==
    \A i \in DOMAIN results :
        LET stx == results[i].stx IN
        /\ \A x, y \in SmallOperands :
              /\ (stx = Binary(n_div, x, y) /\ IsZero(y)) =>
                    results[i].err = "DivisionByZero" /\ results[i].v = 0
              /\ (stx = Binary(n_div, x, y) /\ ~IsZero(y)
                    /\ x.s_type = "Number" /\ y.s_type = "Number") =>
                    Done(i) /\ Obj(i) = IntByInt(x.n, y.n)
              /\ stx = Reciprocal(x) =>
                    IF IsZero(x) THEN results[i].err = "DivisionByZero" /\ results[i].v = 0
                    ELSE /\ Done(i)
                         /\ Obj(i) = IF x.s_type = "Number" THEN IntByInt(1, x.n)
                                     ELSE RationalV(x.denominator, x.numerator)
        /\ \A a, b, c \in ChainInts :
              stx = DivChain(a, b, c) =>
                  IF b = 0 \/ c = 0 THEN results[i].err = "DivisionByZero" /\ results[i].v = 0
                  ELSE Done(i) /\ Obj(i) = ValueByInt(IntByInt(a, b), c)
        /\ stx = DivMin => Done(i) /\ Obj(i).v_type = "V_INT" /\ Obj(i).n > 0

----------------------------------------------------------------------------
(* expt *)

n_expt == <<"e", "x", "p", "t">>
ExptBases ==
    {-3, -2, -1, 0, 1, 2, 3, 7, 10, 46340, 46341, -46341, 65536, INT_MAX, INT_MIN}
ExptExps == -2..33
ExptForm(b, e) == List(<<Sym(n_expt), Number(b), Number(e)>>)
ExptForms == {ExptForm(b, e) : b \in ExptBases, e \in ExptExps}

InitExpt == InitBuild /\ program \in {<<stx>> : stx \in ExptForms}

SpecExpt == InitExpt /\ [][RunProgram]_vars

\* x as a magnitude held below zero, where that of INT_MIN has room
NegMag(x) == IF x > 0 THEN 0 - x ELSE x
\* |a| * |b| <= |N| for a, b and N below zero
MagFits(a, b, N) == IF b = -1 THEN a >= N ELSE a >= 0 - (N \div b)
\* x * y where it lies within [INT_MIN, INT_MAX]
Product(x, y) ==
    IF x = 0 \/ y = 0 THEN [in |-> TRUE, n |-> 0]
    ELSE IF MagFits(NegMag(x), NegMag(y), IF (x < 0) # (y < 0) THEN INT_MIN ELSE 0 - INT_MAX)
    THEN [in |-> TRUE, n |-> x * y]
    ELSE [in |-> FALSE, n |-> 0]
\* b^e by e multiplications, where it lies within [INT_MIN, INT_MAX]: once a
\* power of b is out, every higher one is (|b| >= 2 then)
RECURSIVE Power(_, _)
Power(b, e) ==
    IF e = 0 THEN [in |-> TRUE, n |-> 1]
    ELSE LET p == Power(b, e - 1) IN IF p.in THEN Product(p.n, b) ELSE p

\* C18: expt fails for a negative exponent and for 0^0; otherwise it returns
\* exactly b^e when that lies within [INT_MIN, INT_MAX] and fails with an
\* integer-overflow error when it does not; no product of the loop passes 64 bits
C18_Expt ==
    \A i \in DOMAIN results : \A b \in ExptBases : \A e \in ExptExps :
        results[i].stx = ExptForm(b, e) =>
            /\ results[i].err # "LongLongOverflow"
            /\ IF e < 0 THEN results[i].err = "NegativeExponent"
               ELSE IF b = 0 /\ e = 0 THEN results[i].err = "ZeroToZero"
               ELSE IF Power(b, e).in THEN Done(i) /\ Obj(i) = IntegerV(Power(b, e).n)
               ELSE results[i].err = "IntegerOverflow"

\* (expt -2 31) is INT_MIN, reached although the last squaring of b leaves int
C18_Witness ==
    \E i \in DOMAIN results :
        results[i].stx = ExptForm(-2, 31) /\ Done(i) /\ Obj(i) = IntegerV(INT_MIN)

----------------------------------------------------------------------------
(* Comparisons *)

n_less == <<"<">>
n_lesseq == <<"<", "=">>
n_equal == <<"=">>
n_greatereq == <<">", "=">>
n_greater == <<">">>
CompareNames == {n_less, n_lesseq, n_equal, n_greatereq, n_greater}

\* (op x1 ... xk)
Chain(op, xs) == List(<<Sym(op)>> \o xs)
\* the binary comparisons of the adjacent pairs of xs
Pairwise(op, xs) == [j \in 1..(Len(xs) - 1) |-> Chain(op, <<xs[j], xs[j + 1]>>)]

ChainOperands ==
    {Number(1), Number(2), RationalSyntax(1, 2), RationalSyntax(3, 2), RationalSyntax(2, 4)}
ChainLists == SeqsOver(ChainOperands, 3) \cup [1..4 -> {Number(1), RationalSyntax(3, 2)}]
\* a variadic comparison, followed by the binary comparison of each adjacent pair
ChainPrograms ==
    {<<Chain(op, xs)>> \o Pairwise(op, xs) : op \in CompareNames, xs \in ChainLists}

\* operands written as a literal or as a quotient
Quot(a, b) == List(<<Sym(n_div), Number(a), Number(b)>>)
OrderOperands ==
    {Number(n) : n \in {-1, 0, 1}}
    \cup {RationalSyntax(n, d) : n \in {-1, 1, 3}, d \in {2}}
    \cup {Quot(a, b) : a \in {-1, 1}, b \in {-2, 2}}
OrderPrograms ==
    {<<Chain(op, <<x, y>>)>> : op \in CompareNames, x \in OrderOperands, y \in OrderOperands}

InitCompare == InitBuild /\ program \in ChainPrograms \cup OrderPrograms

SpecCompare == InitCompare /\ [][RunProgram]_vars

\* the i-th form gave boolean true
GaveTrue(i) == Done(i) /\ Obj(i) = BooleanV(TRUE)
GaveFalse(i) == Done(i) /\ Obj(i) = BooleanV(FALSE)

\* C21: a variadic comparison over Integer and Rational operands is true exactly
\* when the binary comparison of every adjacent pair of its operands is, and it
\* is true for no operand and for one
C21_AllAdjacentPairs ==
    \A op \in CompareNames : \A xs \in ChainLists :
        (program = <<>> /\ Len(results) = 1 + Len(Pairwise(op, xs))
            /\ results[1].stx = Chain(op, xs)
            /\ \A j \in 1..(Len(xs) - 1) : results[1 + j].stx = Pairwise(op, xs)[j])
        => /\ GaveTrue(1) \/ GaveFalse(1)
           /\ GaveTrue(1) <=> \A j \in 1..(Len(xs) - 1) : GaveTrue(1 + j)
           /\ Len(xs) < 2 => GaveTrue(1)

\* (<= 1/2 2 1) is false although 1/2 <= 2 and 1/2 <= 1
C21_Witness ==
    /\ program = <<>> /\ Len(results) = 3
    /\ results[1].stx = Chain(n_lesseq, <<RationalSyntax(1, 2), Number(2), Number(1)>>)
    /\ GaveFalse(1) /\ GaveTrue(2) /\ GaveFalse(3)

\* an operand's value as a numerator over a denominator above zero
OrderNum(x) ==
    CASE x.s_type = "Number" -> x.n
      [] x.s_type = "RationalSyntax" -> x.numerator
      [] OTHER -> IF x.stxs[3].n < 0 THEN 0 - x.stxs[2].n ELSE x.stxs[2].n
OrderDen(x) ==
    CASE x.s_type = "Number" -> 1
      [] x.s_type = "RationalSyntax" -> x.denominator
      [] OTHER -> IF x.stxs[3].n < 0 THEN 0 - x.stxs[3].n ELSE x.stxs[3].n
\* x op y in the order of the rationals
InOrder(op, x, y) ==
    LET l == OrderNum(x) * OrderDen(y)
        r == OrderNum(y) * OrderDen(x)
    IN CASE op = n_less -> l < r
         [] op = n_lesseq -> l <= r
         [] op = n_equal -> l = r
         [] op = n_greatereq -> l >= r
         [] op = n_greater -> l > r

\* C27: < <= = >= > agree with the order of the rationals on every Integer and
\* Rational the interpreter makes, those with a denominator below zero included
C27_MathematicalOrder ==
    \A i \in DOMAIN results : \A op \in CompareNames : \A x, y \in OrderOperands :
        results[i].stx = Chain(op, <<x, y>>) =>
            IF InOrder(op, x, y) THEN GaveTrue(i) ELSE GaveFalse(i)

----------------------------------------------------------------------------
(* eq? *)

n_cons == <<"c", "o", "n", "s">>
n_void == <<"v", "o", "i", "d">>

\* operands that eq? compares by what they hold, and operands that it does not
ByValueOperands ==
    {Number(1), Number(2), TrueSyntax, FalseSyntax, QuoteOf(Sym(n_a)), QuoteOf(Sym(n_b)),
     QuoteOf(List(<<>>)), List(<<Sym(n_void)>>)}
ByIdentityOperands ==
    {RationalSyntax(1, 2), StringSyntax(<<"a">>),
     List(<<Sym(n_cons), Number(1), Number(2)>>), QuoteOf(List(<<Number(1)>>)),
     List(<<Sym(n_lambda), List(<<>>), Number(1)>>)}
EqOperands == ByValueOperands \cup ByIdentityOperands

\* (eq? x y), (let ((a x) (b y)) (eq? a b)) and (let ((a x)) (eq? a a))
EqDirect(x, y) == List(<<Sym(n_eqq), x, y>>)
EqTwo(x, y) ==
    List(<<Sym(n_let), List(<<List(<<Sym(n_a), x>>), List(<<Sym(n_b), y>>)>>),
           EqDirect(Sym(n_a), Sym(n_b))>>)
EqSame(x) ==
    List(<<Sym(n_let), List(<<List(<<Sym(n_a), x>>)>>), EqDirect(Sym(n_a), Sym(n_a))>>)

EqPrograms ==
    {<<EqDirect(x, y), EqTwo(x, y)>> : x \in EqOperands, y \in EqOperands}
    \cup {<<EqSame(x), EqDirect(x, x)>> : x \in EqOperands}

InitEq == InitBuild /\ program \in EqPrograms

SpecEq == InitEq /\ [][RunProgram]_vars

\* C22: eq? is true for two Integers of one number, two Booleans of one truth
\* value, two Symbols of one name, two Nulls and two Voids; for every other pair
\* (Rationals, Strings, Pairs, Procedures, different variants) it is true only
\* when both operands are the very same object
C22_Eq ==
    \A i \in DOMAIN results : \A x, y \in EqOperands :
        /\ (results[i].stx = EqDirect(x, y) \/ results[i].stx = EqTwo(x, y)) =>
              IF x = y /\ x \in ByValueOperands THEN GaveTrue(i) ELSE GaveFalse(i)
        /\ results[i].stx = EqSame(x) => GaveTrue(i)

\* a pair is eq? to itself and not to another pair that holds the same
C22_Witness ==
    /\ Len(results) = 2
    /\ results[1].stx = EqSame(List(<<Sym(n_cons), Number(1), Number(2)>>))
    /\ GaveTrue(1) /\ GaveFalse(2)

----------------------------------------------------------------------------
(* cond *)

n_display == <<"d", "i", "s", "p", "l", "a", "y">>

\* (display k)
ShowStx(k) == List(<<Sym(n_display), Number(k)>>)
\* clause j of a cond: its test announces itself, (begin (display j) t), and its
\* body is empty, (20+j) or ((display 10+j) 20+j)
CondTests == {FalseSyntax, Number(5), TrueSyntax}
BodyKinds == 0..2
ClauseKinds == [t : CondTests, b : BodyKinds]
ClauseStx(c, j) ==
    List(<<List(<<Sym(n_begin), ShowStx(j), c.t>>)>>
         \o (IF c.b = 2 THEN <<ShowStx(10 + j)>> ELSE <<>>)
         \o (IF c.b >= 1 THEN <<Number(20 + j)>> ELSE <<>>))
CondOf(cs) == List(<<Sym(n_cond)>> \o [j \in 1..Len(cs) |-> ClauseStx(cs[j], j)])
ClauseLists ==
    [1..1 -> ClauseKinds] \cup [1..2 -> ClauseKinds]
    \cup [1..3 -> {c \in ClauseKinds : c.b = 2}]

\* (cond (#f 1) (#f 2)) and (cond (5))
CondAllFalse ==
    List(<<Sym(n_cond), List(<<FalseSyntax, Number(1)>>), List(<<FalseSyntax, Number(2)>>)>>)
CondTestOnly == List(<<Sym(n_cond), List(<<Number(5)>>)>>)

\* an empty clause after clauses whose tests are the literals ts, and one after it
EmptyClause == List(<<>>)
WithEmptyClause(ts, after) ==
    List(<<Sym(n_cond)>> \o [j \in 1..Len(ts) |-> List(<<ts[j], Number(20 + j)>>)]
         \o <<EmptyClause>> \o after)
TestLists == SeqsOver(CondTests, 2)
AfterEmpty == {<<>>, <<List(<<TrueSyntax, Number(1)>>)>>}

CondPrograms ==
    {<<CondOf(cs)>> : cs \in ClauseLists}
    \cup {<<CondAllFalse>>, <<CondTestOnly>>}
    \cup {<<WithEmptyClause(ts, after)>> : ts \in TestLists, after \in AfterEmpty}

InitCond == InitBuild /\ program \in CondPrograms

SpecCond == InitCond /\ [][RunProgram]_vars

\* the first clause whose test is not #f, 0 for none
Winner(cs) ==
    IF \E j \in 1..Len(cs) : cs[j].t # FalseSyntax
    THEN CHOOSE j \in 1..Len(cs) :
            cs[j].t # FalseSyntax /\ \A h \in 1..(j - 1) : cs[h].t = FalseSyntax
    ELSE 0
\* what a literal test evaluates to
TestValue(t) == IF t.s_type = "Number" THEN IntegerV(t.n) ELSE BooleanV(t = TrueSyntax)

\* C23: cond evaluates the tests in order up to the first that is not
\* boolean-false and no later test; of the bodies it evaluates the winning
\* clause's only; the result is the value of that clause's last body expression,
\* the test's own value when the clause has no body, and boolean-false when no
\* test wins
C23_Cond ==
    \A i \in DOMAIN results :
        /\ \A cs \in ClauseLists :
              results[i].stx = CondOf(cs) =>
                  LET j == Winner(cs) IN
                  /\ Done(i)
                  /\ Obj(i) = IF j = 0 THEN BooleanV(FALSE)
                              ELSE IF cs[j].b = 0 THEN TestValue(cs[j].t)
                              ELSE IntegerV(20 + j)
                  /\ Wrote(i) = IF j = 0 THEN ShownInts(1, Len(cs))
                                ELSE ShownInts(1, j)
                                     \o (IF cs[j].b = 2 THEN <<IntegerV(10 + j)>> ELSE <<>>)
        /\ results[i].stx = CondAllFalse => GaveFalse(i)
        /\ results[i].stx = CondTestOnly => Done(i) /\ Obj(i) = IntegerV(5)

\* the second test wins with 5 and its clause has no body: the result is 5 and
\* the body of the first clause was not evaluated
C23_Witness ==
    \E i \in DOMAIN results :
        /\ results[i].stx = CondOf(<<[t |-> FalseSyntax, b |-> 2], [t |-> Number(5), b |-> 0]>>)
        /\ Done(i) /\ Obj(i) = IntegerV(5)
        /\ Wrote(i) = ShownInts(1, 2)

\* C26: a cond with an empty clause fails with a form error, wherever the empty
\* clause stands and whatever the tests before it evaluate to
C26_EmptyClauseIsError ==
    \A i \in DOMAIN results : \A ts \in TestLists : \A after \in AfterEmpty :
        results[i].stx = WithEmptyClause(ts, after) =>
            results[i].err = "MalformedSyntax"

----------------------------------------------------------------------------
(* set! *)

\* (let ((x e)) body), (begin e1 ... ek), (set! x e), (display e)
Let1(x, e, body) == List(<<Sym(n_let), List(<<List(<<Sym(x), e>>)>>), body>>)
Let2(x, e, y, f, body) ==
    List(<<Sym(n_let), List(<<List(<<Sym(x), e>>), List(<<Sym(y), f>>)>>), body>>)
BeginOf(es) == List(<<Sym(n_begin)>> \o es)
SetOf(x, e) == List(<<Sym(n_set), Sym(x), e>>)
DisplayOf(e) == List(<<Sym(n_display), e>>)

SetInts == 1..3
\* the new value: a literal, one computed from the variable, one that announces itself
NewValues == {Number(9), Binary(n_plus, Sym(n_x), Number(5)), BeginOf(<<ShowStx(0), Number(7)>>)}

\* (set! x (begin (display 0) 7)) with x bound nowhere: at top level, and under a y
SetUnbound == SetOf(n_x, BeginOf(<<ShowStx(0), Number(7)>>))
SetUnboundUnder(a) == Let1(n_y, Number(a), SetUnbound)

\* (let ((x a) (y b))
\*   (begin (let ((x c)) (begin (display (set! x e)) (display x) (display y)))
\*          (display x) (display y)))
SetNearest(a, b, c, e) ==
    Let2(n_x, Number(a), n_y, Number(b),
         BeginOf(<<Let1(n_x, Number(c),
                        BeginOf(<<DisplayOf(SetOf(n_x, e)), DisplayOf(Sym(n_x)),
                                  DisplayOf(Sym(n_y))>>)),
                   DisplayOf(Sym(n_x)), DisplayOf(Sym(n_y))>>))

\* (let ((x a)) (begin (let ((y b)) (set! x e)) (display x)))
SetOuter(a, b, e) ==
    Let1(n_x, Number(a),
         BeginOf(<<Let1(n_y, Number(b), SetOf(n_x, e)), DisplayOf(Sym(n_x))>>))

\* ((lambda (x) (begin (set! x (+ x 1)) x)) 10)
SetParameter ==
    List(<<List(<<Sym(n_lambda), List(<<Sym(n_x)>>),
                  BeginOf(<<SetOf(n_x, Binary(n_plus, Sym(n_x), Number(1))), Sym(n_x)>>)>>),
           Number(10)>>)

SetPrograms ==
    {<<SetUnbound>>, <<SetParameter>>}
    \cup {<<SetUnboundUnder(a)>> : a \in SetInts}
    \cup {<<SetNearest(a, b, c, e)>> : a \in SetInts, b \in SetInts, c \in SetInts, e \in NewValues}
    \cup {<<SetOuter(a, b, e)>> : a \in SetInts, b \in SetInts, e \in NewValues}

InitSet == InitBuild /\ program \in SetPrograms

SpecSet == InitSet /\ [][RunProgram]_vars

\* what the new value writes, and what it is where x is bound to c
NewWrites(e) == IF e = BeginOf(<<ShowStx(0), Number(7)>>) THEN <<IntegerV(0)>> ELSE <<>>
NewValue(e, c) ==
    IF e = Number(9) THEN 9 ELSE IF e = BeginOf(<<ShowStx(0), Number(7)>>) THEN 7 ELSE c + 5

\* C24: set! on a name bound nowhere in the chain fails with UndefinedVariable
\* before its expression is evaluated and leaves every binding as it was; on a
\* bound name it evaluates the expression, replaces the value in the nearest frame
\* binding the name, outer frames of that name and other names keeping theirs,
\* and returns Void
C24_Set ==
    \A i \in DOMAIN results :
        /\ results[i].stx = SetUnbound =>
              results[i].err = "UndefinedVariable" /\ Wrote(i) = <<>> /\ frames = <<>>
        /\ \A a \in SetInts :
              results[i].stx = SetUnboundUnder(a) =>
                  /\ results[i].err = "UndefinedVariable" /\ Wrote(i) = <<>>
                  /\ \A f \in DOMAIN frames :
                        frames[f].x = n_y /\ heap[frames[f].v] = IntegerV(a)
        /\ \A a, b, c \in SetInts : \A e \in NewValues :
              /\ results[i].stx = SetNearest(a, b, c, e) =>
                    /\ Done(i)
                    /\ Wrote(i) = NewWrites(e)
                                  \o <<VoidV, IntegerV(NewValue(e, c)), IntegerV(b),
                                       IntegerV(a), IntegerV(b)>>
              /\ results[i].stx = SetOuter(a, b, e) =>
                    /\ Done(i)
                    /\ Wrote(i) = NewWrites(e) \o <<IntegerV(NewValue(e, a))>>
        /\ results[i].stx = SetParameter => Done(i) /\ Obj(i) = IntegerV(11)

\* the inner x became c + 5, the outer x and y kept their values
C24_Witness ==
    \E i \in DOMAIN results :
        /\ results[i].stx = SetNearest(1, 2, 3, Binary(n_plus, Sym(n_x), Number(5)))
        /\ Done(i)
        /\ Wrote(i) = <<VoidV, IntegerV(8), IntegerV(2), IntegerV(1), IntegerV(2)>>

----------------------------------------------------------------------------
(* Operand order of the binary primitives *)

n_setcar == <<"s", "e", "t", "-", "c", "a", "r", "!">>
n_setcdr == <<"s", "e", "t", "-", "c", "d", "r", "!">>
BinaryNames == {n_modulo, n_expt, n_cons, n_setcar, n_setcdr, n_eqq}

\* (op (begin (display 1) a) (begin (display 2) b))
BothAnnounce(op, a, b) ==
    Binary(op, BeginOf(<<ShowStx(1), a>>), BeginOf(<<ShowStx(2), b>>))
AnnouncedPairs ==
    {<<Number(5), Number(2)>>, <<List(<<Sym(n_cons), Number(1), Number(2)>>), Number(5)>>}

\* (let ((x 1)) (op (begin (set! x 2) x) x)): the second operand reads what the
\* first has set
FirstSetsSecondReads(op) ==
    Let1(n_x, Number(1), Binary(op, BeginOf(<<SetOf(n_x, Number(2)), Sym(n_x)>>), DisplayOf(Sym(n_x))))

\* (op (car 1) y) and (op y (car 1)), y unbound: both operands fail
CarOfInt == List(<<Sym(n_car), Number(1)>>)
BothFail(op) == Binary(op, CarOfInt, Sym(n_y))
BothFailSwapped(op) == Binary(op, Sym(n_y), CarOfInt)

BinaryPrograms ==
    {<<BothAnnounce(op, ab[1], ab[2])>> : op \in BinaryNames, ab \in AnnouncedPairs}
    \cup {<<FirstSetsSecondReads(op)>> : op \in BinaryNames}
    \cup {<<BothFail(op)>> : op \in BinaryNames}
    \cup {<<BothFailSwapped(op)>> : op \in BinaryNames}

InitBinary == InitBuild /\ program \in BinaryPrograms

SpecBinary == InitBinary /\ [][RunProgram]_vars

\* C25: a binary primitive node evaluates its first operand completely before
\* its second: the effects of the first are visible to the second, and when both
\* fail the error is the first operand's
C25_FirstOperandFirst ==
    \A i \in DOMAIN results : \A op \in BinaryNames :
        /\ \A ab \in AnnouncedPairs :
              results[i].stx = BothAnnounce(op, ab[1], ab[2]) =>
                  Wrote(i) = <<IntegerV(1), IntegerV(2)>>
        /\ results[i].stx = FirstSetsSecondReads(op) => Wrote(i) = <<IntegerV(2)>>
        /\ results[i].stx = BothFail(op) => results[i].err = "WrongType"
        /\ results[i].stx = BothFailSwapped(op) => results[i].err = "UndefinedVariable"

----------------------------------------------------------------------------
(* Arithmetic on operands that are not numbers *)

NumericOperands == {Number(1), RationalSyntax(1, 2)}
OtherOperands == {TrueSyntax, StringSyntax(<<"a">>)}
TypedLists == SeqsOver(NumericOperands \cup OtherOperands, 3) \ {<<>>}
TypedPrograms == {<<Chain(op, xs)>> : op \in ArithNames, xs \in TypedLists}

InitTyped == InitBuild /\ program \in TypedPrograms

SpecTyped == InitTyped /\ [][RunProgram]_vars

\* C28: + - * / with an operand that is neither an Integer nor a Rational fail
\* with WrongType, whatever the number of operands, (+ x) and (* x) included; no
\* arithmetic form returns a value that is not a number
C28_WrongType ==
    \A i \in DOMAIN results : \A op \in ArithNames : \A xs \in TypedLists :
        results[i].stx = Chain(op, xs) =>
            /\ (\E j \in DOMAIN xs : xs[j] \in OtherOperands) => results[i].err = "WrongType"
            /\ Done(i) => Obj(i).v_type \in {"V_INT", "V_RATIONAL"}

----------------------------------------------------------------------------
(* Variable names *)

\* every name of up to four characters over six, and some longer or rarer ones
NameChars == {"+", "-", "1", ".", "e", "a"}
ShortNames == SeqsOver(NameChars, 4) \ {<<>>}
OtherNames ==
    {<<"+", "1", "2", "3">>, <<"+", ".", "5">>, <<"+", "1", "2", "4", ".">>,
     <<"-", "1", "e", "-", "3">>, <<"+", "1", "E", "+", "2">>, <<"+", "1", ".", "e", "1">>,
     <<"+", "1", "e", "1", "1">>, <<"+", "1", "e", "1", ".">>, <<"+", "1", "e", "1", "e", "1">>,
     <<"-", ".", "e", "-", "1">>, <<"1", "x">>, <<"@", "a">>, <<"a", "@">>, <<"a", "#">>,
     <<"a", "'">>, <<"a", "\"">>, <<"a", BACKQUOTE>>, <<"x", "1">>}
Names == ShortNames \cup OtherNames

InitName == InitBuild /\ program \in {<<Sym(s)>> : s \in Names}

SpecName == InitName /\ [][RunProgram]_vars

\* s without its leading sign
Unsigned(s) == IF s # <<>> /\ s[1] \in {"+", "-"} THEN Tail(s) ELSE s
HasDigit(s) == \E j \in DOMAIN s : s[j] \in Digits
\* digits with at most one '.'
IsMantissa(m) ==
    /\ \A j \in DOMAIN m : m[j] \in Digits \cup {"."}
    /\ Cardinality({j \in DOMAIN m : m[j] = "."}) <= 1
\* an exponent marker, an optional sign, and at least one digit
IsExponent(x) ==
    /\ Len(x) >= 2 /\ x[1] \in {"e", "E"}
    /\ Unsigned(Tail(x)) # <<>>
    /\ \A j \in DOMAIN Unsigned(Tail(x)) : Unsigned(Tail(x))[j] \in Digits
\* the ways to cut s, less its sign, into a mantissa and an optional exponent
Cuts(s) ==
    {k \in 0..Len(Unsigned(s)) :
        /\ IsMantissa(SubSeq(Unsigned(s), 1, k))
        /\ k = Len(Unsigned(s)) \/ IsExponent(SubSeq(Unsigned(s), k + 1, Len(Unsigned(s))))}
\* the shape of a number literal: the digits come before any exponent marker
LiteralShape(s) == \E k \in Cuts(s) : HasDigit(SubSeq(Unsigned(s), 1, k))

BadStart(s) == s[1] \in Digits \cup {".", "@"}
BadChar(s) == \E j \in DOMAIN s : s[j] \in {"#", "'", "\"", BACKQUOTE}

\* the name is refused, or it is looked up
Refused(i) == results[i].err = "InvalidIdentifier"
LookedUp(i) == Done(i) \/ results[i].err = "UndefinedVariable"

\* C29: a symbol is refused as a variable name exactly when it starts with a
\* digit, '.' or '@', contains one of # ' " and the backquote, or has the shape
\* of a number literal (optional sign, digits with at most one '.', optional
\* exponent marker with optional sign and at least one digit); every other name,
\* the lone signs and -e and +1e among them, is looked up
C29_NameCheck ==
    \A i \in DOMAIN results : \A s \in Names :
        results[i].stx = Sym(s) =>
            IF BadStart(s) \/ BadChar(s) \/ LiteralShape(s) THEN Refused(i) ELSE LookedUp(i)

\* -1e-3 is refused
C29_Witness ==
    \E i \in DOMAIN results :
        results[i].stx = Sym(<<"-", "1", "e", "-", "3">>) /\ Refused(i)

----------------------------------------------------------------------------
(* Operand counts *)

n_cdr == <<"c", "d", "r">>
n_not == <<"n", "o", "t">>
n_numberq == <<"n", "u", "m", "b", "e", "r", "?">>
n_nullq == <<"n", "u", "l", "l", "?">>
n_pairq == <<"p", "a", "i", "r", "?">>
n_procedureq == <<"p", "r", "o", "c", "e", "d", "u", "r", "e", "?">>
n_symbolq == <<"s", "y", "m", "b", "o", "l", "?">>
n_stringq == <<"s", "t", "r", "i", "n", "g", "?">>
n_exit == <<"e", "x", "i", "t">>

UnaryNames ==
    {n_car, n_cdr, n_not, n_booleanq, n_numberq, n_nullq, n_pairq, n_procedureq,
     n_symbolq, n_stringq, n_display}
NullaryNames == {n_void, n_exit}
CountedNames == BinaryNames \cup UnaryNames \cup NullaryNames \cup {n_set, n_quote, n_if}

\* the operand counts a name takes
Takes(op) ==
    IF op \in BinaryNames \cup {n_set} THEN {2}
    ELSE IF op \in UnaryNames \cup {n_quote} THEN {1}
    ELSE IF op \in NullaryNames THEN {0}
    ELSE {2, 3}

\* (op e1 .. ek): the operands are 1, and x where set! wants a name
Counts == 0..4
Counted(op, k) ==
    List(<<Sym(op)>> \o [j \in 1..k |-> IF op = n_set /\ j = 1 THEN Sym(n_x) ELSE Number(1)])
\* the form after a display, and the form in a branch that is not taken
AfterDisplay(t) == BeginOf(<<ShowStx(1), t>>)
NotTaken(t) == List(<<Sym(n_if), FalseSyntax, t, Number(1)>>)

ArityPrograms ==
    {<<AfterDisplay(Counted(op, k))>> : op \in CountedNames, k \in Counts}
    \cup {<<NotTaken(Counted(op, k))>> : op \in CountedNames, k \in Counts}

InitArity == InitBuild /\ program \in ArityPrograms

SpecArity == InitArity /\ [][RunProgram]_vars

\* the analyzer refused the i-th form and nothing of it was evaluated
RefusedByAnalyzer(i) ==
    results[i].stage = "analyze" /\ results[i].err = "MalformedSyntax" /\ Wrote(i) = <<>>

\* C30: the analyzer refuses, before anything is evaluated, every form of a
\* fixed-arity primitive, of set!, of quote and of if with a wrong operand count;
\* with the right count the form reaches evaluation
C30_WrongCountRefused ==
    \A i \in DOMAIN results : \A op \in CountedNames : \A k \in Counts :
        /\ results[i].stx = AfterDisplay(Counted(op, k)) =>
              IF k \in Takes(op) THEN results[i].stage = "eval" /\ Wrote(i) # <<>>
              ELSE RefusedByAnalyzer(i)
        /\ results[i].stx = NotTaken(Counted(op, k)) =>
              IF k \in Takes(op) THEN Done(i) /\ Obj(i) = IntegerV(1)
              ELSE RefusedByAnalyzer(i)

\* (if 1 1 1 1) is refused although it stands after a display
C30_Witness ==
    \E i \in DOMAIN results :
        results[i].stx = AfterDisplay(Counted(n_if, 4)) /\ RefusedByAnalyzer(i)

====
